---- MODULE Spec2Model ----
(***************************************************************************)
(* Azure-AI-Image-Editor-MCP: the JSON-RPC dispatch layer of the three     *)
(* entry points                                                            *)
(*     src/src/http_server.py      (FastAPI, "hs_" below)                  *)
(*     src/src/mcp_server_http.py  (Starlette, "mh_" below)                *)
(*     src/src/mcp_server.py       (stdio, "ms_" below)                    *)
(* and the collaborator src/src/azure_image_client.py.                     *)
(*                                                                         *)
(* Python values are modelled as tagged tuples:                            *)
(*     None            <<"null">>                                          *)
(*     int n           <<"int", n>>                                        *)
(*     str (opaque)    <<"str", s>>      s a TLA+ string, compared whole   *)
(*     str (text)      <<"txt", cps>>    cps the sequence of code points   *)
(*     list            <<"list">>        a JSON array (not a mapping)      *)
(*     dict            <<"map", f>>      f a function from keys to values  *)
(*     str (base64)    <<"b64str", ts>>  ts the sequence of its tokens     *)
(*     str (method)    <<"segs", ss>>    ss the segments of a method name, *)
(*                                       "tools/call" is <<"tools/","call">>*)
(* A key that a dict does not hold is not in DOMAIN f.                     *)
(***************************************************************************)
EXTENDS Integers, Sequences, FiniteSets, TLC

VARIABLES
    env,      \* os.environ of the server process (read-only while serving)
    files,    \* paths that exist on the server's filesystem
    audit,    \* the audit/ directory: one entry per session directory
    handled,  \* number of requests this run has answered
    req,      \* the request being answered (NoReq when idle)
    resp,     \* the answer it got (NoResp when idle)
    log,      \* side effects of answering req, in program order
    calls,    \* collaborator invocations made while answering req
    tasks     \* the tools/call coroutines in flight on the event loop

vars == <<env, files, audit, handled, req, resp, log, calls, tasks>>

\* ------------------------------------------------------------------ values

Missing == <<"missing">>
JNull == <<"null">>
JList == <<"list">>
JInt(n) == <<"int", n>>
JStr(s) == <<"str", s>>
JTxt(cps) == <<"txt", cps>>
JMap(f) == <<"map", f>>
JB64(tokens) == <<"b64str", tokens>>
JMethod(segs) == <<"segs", segs>>

\* A dict literal: the keys of f whose value is not Missing.
Obj(f) == [k \in {k \in DOMAIN f : f[k] # Missing} |-> f[k]]

EmptyDict == Obj([none |-> Missing])

IsMap(v) == v[1] = "map"

\* dict.get(key, default)
Get(d, key, default) == IF key \in DOMAIN d THEN d[key] ELSE default

\* Python truthiness of a value (bool(v)).
Truthy(v) ==
    CASE v[1] = "null" -> FALSE
      [] v[1] = "int" -> v[2] # 0
      [] v[1] = "str" -> v[2] # ""
      [] v[1] = "txt" -> v[2] # <<>>
      [] v[1] = "b64str" -> v[2] # <<>>
      [] v[1] = "list" -> TRUE
      [] v[1] = "map" -> DOMAIN v[2] # {}
      [] OTHER -> TRUE

\* ------------------------------------------------------------------ text

\* str.isspace() of one code point.
IsSpace(c) ==
    \/ c \in 9..13
    \/ c \in 28..32
    \/ c \in {133, 160, 5760, 8232, 8233, 8239, 8287, 12288}
    \/ c \in 8192..8202

RECURSIVE lstrip(_)
lstrip(cps) ==
    IF cps = <<>> THEN <<>>
    ELSE IF IsSpace(Head(cps)) THEN lstrip(Tail(cps))
    ELSE cps

RECURSIVE rstrip(_)
rstrip(cps) ==
    IF cps = <<>> THEN <<>>
    ELSE IF IsSpace(cps[Len(cps)]) THEN rstrip(SubSeq(cps, 1, Len(cps) - 1))
    ELSE cps

\* str.strip()
strip(cps) == rstrip(lstrip(cps))

\* The four ranges tested by is_english_text.
CJK_LO == 19968
CJK_HI == 40959
HIRAGANA_LO == 12352
HIRAGANA_HI == 12447
KATAKANA_LO == 12448
KATAKANA_HI == 12543
HANGUL_LO == 44032
HANGUL_HI == 55215

\* The ranges without the Hangul syllables.
InCJKRanges_NoHangul(c) ==
    \/ CJK_LO <= c /\ c <= CJK_HI
    \/ HIRAGANA_LO <= c /\ c <= HIRAGANA_HI
    \/ KATAKANA_LO <= c /\ c <= KATAKANA_HI

InCJKRanges(c) ==
    \/ CJK_LO <= c /\ c <= CJK_HI
    \/ HIRAGANA_LO <= c /\ c <= HIRAGANA_HI
    \/ KATAKANA_LO <= c /\ c <= KATAKANA_HI
    \/ HANGUL_LO <= c /\ c <= HANGUL_HI

\* is_english_text(text), text the code points of a str.
hs_is_english_text(cps) ==
    IF strip(cps) = <<>> THEN TRUE
    ELSE ~ \E i \in 1..Len(cps) : InCJKRanges(cps[i])

mh_is_english_text(cps) ==
    IF strip(cps) = <<>> THEN TRUE
    ELSE ~ \E i \in 1..Len(cps) : InCJKRanges(cps[i])

ms_is_english_text(cps) ==
    IF strip(cps) = <<>> THEN TRUE
    ELSE ~ \E i \in 1..Len(cps) : InCJKRanges(cps[i])

\* The suffix handle_edit_image appends to the caller's prompt:
\* " (and all other elements exactly the same)".
EDIT_SUFFIX ==
    <<32, 40, 97, 110, 100, 32, 97, 108, 108, 32, 111, 116, 104, 101, 114, 32,
      101, 108, 101, 109, 101, 110, 116, 115, 32, 101, 120, 97, 99, 116, 108,
      121, 32, 116, 104, 101, 32, 115, 97, 109, 101, 41>>

\* ------------------------------------------------------------------ sizes

supported_sizes == {JStr("1024x1024"), JStr("1792x1024"), JStr("1024x1792")}

\* validate_image_size(size): size in supported_sizes (any value may be asked).
validate_image_size(size) == size \in supported_sizes

\* -------------------------------------------------------------- environment

\* The value of an AZURE_* variable is a sequence of one-character strings.
IsSpaceCh(ch) == ch \in {" ", "\t"}

RECURSIVE lstrip_ch(_)
lstrip_ch(s) ==
    IF s = <<>> THEN <<>>
    ELSE IF IsSpaceCh(Head(s)) THEN lstrip_ch(Tail(s))
    ELSE s

RECURSIVE rstrip_ch(_)
rstrip_ch(s) ==
    IF s = <<>> THEN <<>>
    ELSE IF IsSpaceCh(s[Len(s)]) THEN rstrip_ch(SubSeq(s, 1, Len(s) - 1))
    ELSE s

strip_ch(s) == rstrip_ch(lstrip_ch(s))

\* A prefix test that compares lengths only.
startswith_by_length(s, prefix) == Len(s) >= Len(prefix)

\* str.startswith(prefix)
startswith(s, prefix) ==
    Len(s) >= Len(prefix) /\ SubSeq(s, 1, Len(prefix)) = prefix

HTTP_PREFIX == <<"h", "t", "t", "p", ":", "/", "/">>
HTTPS_PREFIX == <<"h", "t", "t", "p", "s", ":", "/", "/">>
DEFAULT_MODEL == <<"f", "l", "u", "x">>
DEFAULT_API_VERSION == <<"2", "0", "2", "5">>

\* The shortest API key get_azure_config accepts.
MIN_API_KEY_LEN == 10

\* os.getenv(name): None when unset.
getenv(e, name) == IF name \in DOMAIN e THEN e[name] ELSE JNull

\* `not value or not value.strip()` for the result of os.getenv
blank(v) == v = JNull \/ v = <<>> \/ strip_ch(v) = <<>>

required_vars == <<"AZURE_BASE_URL", "AZURE_API_KEY", "AZURE_DEPLOYMENT_NAME">>

missing_vars(e) ==
    SelectSeq(required_vars, LAMBDA name : blank(getenv(e, name)))

ValueError(msg) == [type |-> "ValueError", msg |-> msg]

\* The checks of get_azure_config after the variables were read; cfg holds
\* the stripped values.  Shared by the three copies, which differ only in
\* the optional keys they add.
config_checks(e, cfg) ==
    IF missing_vars(e) # <<>>
    THEN [ok |-> FALSE,
          exc |-> ValueError(<<"Missing required environment variables: {}",
                               missing_vars(e)>>)]
    ELSE IF ~ (startswith(cfg.base_url, HTTP_PREFIX)
               \/ startswith(cfg.base_url, HTTPS_PREFIX))
    THEN [ok |-> FALSE,
          exc |-> ValueError(<<"AZURE_BASE_URL must be a valid HTTP/HTTPS URL">>)]
    ELSE IF Len(cfg.api_key) < MIN_API_KEY_LEN
    THEN [ok |-> FALSE,
          exc |-> ValueError(<<"AZURE_API_KEY is too short, please check if the API key is correct">>)]
    ELSE IF cfg.deployment_name = <<>>
    THEN [ok |-> FALSE,
          exc |-> ValueError(<<"AZURE_DEPLOYMENT_NAME cannot be empty">>)]
    ELSE [ok |-> TRUE, config |-> cfg]

stripped(e, name) ==
    IF blank(getenv(e, name)) THEN <<>> ELSE strip_ch(getenv(e, name))

optional(e, name, default) ==
    IF blank(getenv(e, name)) THEN default ELSE strip_ch(getenv(e, name))

\* http_server.get_azure_config
hs_get_azure_config(e) ==
    config_checks(e, [base_url |-> stripped(e, "AZURE_BASE_URL"),
                      api_key |-> stripped(e, "AZURE_API_KEY"),
                      deployment_name |-> stripped(e, "AZURE_DEPLOYMENT_NAME"),
                      model |-> optional(e, "AZURE_MODEL", DEFAULT_MODEL)])

\* mcp_server_http.get_azure_config
mh_get_azure_config(e) ==
    config_checks(e, [base_url |-> stripped(e, "AZURE_BASE_URL"),
                      api_key |-> stripped(e, "AZURE_API_KEY"),
                      deployment_name |-> stripped(e, "AZURE_DEPLOYMENT_NAME"),
                      model |-> optional(e, "AZURE_MODEL", DEFAULT_MODEL),
                      api_version |-> optional(e, "AZURE_API_VERSION",
                                               DEFAULT_API_VERSION)])

\* mcp_server.get_azure_config
ms_get_azure_config(e) ==
    config_checks(e, [base_url |-> stripped(e, "AZURE_BASE_URL"),
                      api_key |-> stripped(e, "AZURE_API_KEY"),
                      deployment_name |-> stripped(e, "AZURE_DEPLOYMENT_NAME"),
                      model |-> optional(e, "AZURE_MODEL", DEFAULT_MODEL),
                      api_version |-> optional(e, "AZURE_API_VERSION",
                                               DEFAULT_API_VERSION)])

\* os.getenv("DEFAULT_IMAGE_SIZE", "1024x1024"): the variable holds an opaque
\* size string, kept in env as the str the handlers get.
default_image_size(e) ==
    IF "DEFAULT_IMAGE_SIZE" \in DOMAIN e THEN e["DEFAULT_IMAGE_SIZE"]
    ELSE JStr("1024x1024")

\* Environments a server may be started in.
GoodUrl == <<"h", "t", "t", "p", "s", ":", "/", "/", "x">>
BadUrl == <<"f", "t", "p", ":", "/", "/", "x">>
GoodKey == <<"k", "e", "y", "0", "1", "2", "3", "4", "5", "6">>
ShortKey == <<"k", "e", "y", "0", "1", "2", "3", "4", "5">>
Deployment == <<"d", "e", "p">>

EnvOf(url, key, dep, size) ==
    Obj([AZURE_BASE_URL |-> url, AZURE_API_KEY |-> key,
         AZURE_DEPLOYMENT_NAME |-> dep, DEFAULT_IMAGE_SIZE |-> size])

Environments ==
    {EnvOf(GoodUrl, GoodKey, Deployment, s) : s \in {Missing, JStr("1792x1024"), JStr("640x480")}}
    \cup {EnvOf(GoodUrl, Missing, Deployment, Missing),
          EnvOf(<<" ", " ">>, GoodKey, Deployment, Missing),
          EnvOf(BadUrl, GoodKey, Deployment, Missing),
          EnvOf(GoodUrl, ShortKey, Deployment, Missing)}


\* ------------------------------------------------------------- collaborator

Exception(msg) == [type |-> "Exception", msg |-> msg]
AttributeError(msg) == [type |-> "AttributeError", msg |-> msg]
TypeError(msg) == [type |-> "TypeError", msg |-> msg]
OSError(msg) == [type |-> "OSError", msg |-> msg]
NoExc == [type |-> "none", msg |-> <<>>]

Bytes(token) == <<"bytes", token>>

\* base64.b64encode(data).decode('utf-8')
b64encode(data) == <<"b64", data[2]>>

\* The image the upstream service sends back, base64-decoded.
API_IMAGE == Bytes("generated")

\* Outcomes of the upstream HTTP exchange of one collaborator invocation.
CollabOutcomes == {"ok", "status_error", "timeout", "no_data"}

CallRecord(op, image_path, prompt, size, output_path) ==
    [op |-> op, image_path |-> image_path, prompt |-> prompt, size |-> size,
     output_path |-> output_path]

\* A collaborator that saves whenever output_path is not None.
after_post_testing_none(what, outcome, output_path, fs, evs) ==
    IF outcome = "status_error"
    THEN [ok |-> FALSE, exc |-> Exception(<<"Azure API error: {} - {}">>),
          value |-> JNull, files |-> fs,
          log |-> evs \o <<"client.post", "collaborator:raise">>]
    ELSE IF outcome = "timeout"
    THEN [ok |-> FALSE, exc |-> Exception(<<what, <<"timed out">>>>),
          value |-> JNull, files |-> fs,
          log |-> evs \o <<"client.post", "collaborator:raise">>]
    ELSE IF outcome = "no_data"
    THEN [ok |-> FALSE,
          exc |-> Exception(<<what, <<"No image data returned from API">>>>),
          value |-> JNull, files |-> fs,
          log |-> evs \o <<"client.post", "collaborator:raise">>]
    ELSE IF output_path # JNull
    THEN [ok |-> TRUE, exc |-> NoExc, value |-> output_path,
          files |-> [q \in DOMAIN fs \cup {output_path} |->
                        IF q = output_path THEN API_IMAGE ELSE fs[q]],
          log |-> evs \o <<"client.post", "write_output">>]
    ELSE [ok |-> TRUE, exc |-> NoExc, value |-> API_IMAGE, files |-> fs,
          log |-> evs \o <<"client.post">>]

\* What the rest of AzureImageGenerator.generate_image / edit_image does once
\* the POST was sent: raise_for_status, the "data" check, b64decode, and the
\* save to output_path.  fs is the filesystem, outcome the upstream's answer.
after_post(what, outcome, output_path, fs, evs) ==
    IF outcome = "status_error"
    THEN [ok |-> FALSE, exc |-> Exception(<<"Azure API error: {} - {}">>),
          value |-> JNull, files |-> fs,
          log |-> evs \o <<"client.post", "collaborator:raise">>]
    ELSE IF outcome = "timeout"
    THEN [ok |-> FALSE, exc |-> Exception(<<what, <<"timed out">>>>),
          value |-> JNull, files |-> fs,
          log |-> evs \o <<"client.post", "collaborator:raise">>]
    ELSE IF outcome = "no_data"
    THEN [ok |-> FALSE,
          exc |-> Exception(<<what, <<"No image data returned from API">>>>),
          value |-> JNull, files |-> fs,
          log |-> evs \o <<"client.post", "collaborator:raise">>]
    ELSE IF Truthy(output_path)
    THEN [ok |-> TRUE, exc |-> NoExc, value |-> output_path,
          files |-> [q \in DOMAIN fs \cup {output_path} |->
                        IF q = output_path THEN API_IMAGE ELSE fs[q]],
          log |-> evs \o <<"client.post", "write_output">>]
    ELSE [ok |-> TRUE, exc |-> NoExc, value |-> API_IMAGE, files |-> fs,
          log |-> evs \o <<"client.post">>]

\* AzureImageGenerator.generate_image(prompt, size, output_path=...)
generate_image(prompt, size, output_path, fs, outcome) ==
    after_post("Image generation failed: {}", outcome, output_path, fs, <<>>)

\* The size edit_image sends when the caller gave none and the dimensions of
\* the input image can be read.
IMAGE_DIMENSIONS == JStr("800x600")

\* AzureImageGenerator.edit_image(image_path, prompt, size, output_path);
\* dims: whether PIL can read the image's dimensions.
edit_image(image_path, prompt, size, output_path, fs, outcome, dims) ==
    IF ~ Truthy(image_path)
    THEN [ok |-> FALSE,
          exc |-> Exception(<<"Image editing failed: {}",
                              <<"image_path parameter is required">>>>),
          value |-> JNull, files |-> fs, log |-> <<"collaborator:raise">>]
    ELSE IF image_path \notin DOMAIN fs
    THEN [ok |-> FALSE,
          exc |-> Exception(<<"Image editing failed: {}", <<"No such file">>>>),
          value |-> JNull, files |-> fs,
          log |-> <<"read_input", "collaborator:raise">>]
    ELSE IF ~ Truthy(size) /\ ~ (dims /\ fs[image_path] # Bytes(""))
    THEN [ok |-> FALSE,
          exc |-> Exception(<<"Image editing failed: {}",
                              <<"Could not determine image dimensions">>>>),
          value |-> JNull, files |-> fs,
          log |-> <<"read_input", "collaborator:raise">>]
    ELSE after_post("Image editing failed: {}", outcome, output_path, fs,
                    <<"read_input">>)

\* The size edit_image puts in the multipart form.
edit_form_size(size) == IF Truthy(size) THEN size ELSE IMAGE_DIMENSIONS


\* ------------------------------------------------------------ content, audit

TextBlock(t) == [type |-> "text", text |-> t]
ImageBlock(data) == [type |-> "image", data |-> data, mimeType |-> "image/png"]

\* Ways the filesystem may fail the audit recorder during one call.
AuditFailures ==
    {"none", "create", "request", "copy", "response_once", "response_always"}

\* What names a session directory besides the operation: datetime.now() to
\* the second, and the first 8 hex digits of a uuid4.
Stamp(second, fragment) == [second |-> second, fragment |-> fragment]

Stamps ==
    {Stamp("20240101_120000", "1a2b3c4d"), Stamp("20240101_120000", "9f8e7d6c"),
     Stamp("20240101_120001", "1a2b3c4d")}

\* f"{timestamp}_{session_id[:8]}_anonymous_{operation_type}"
session_dir_name(stamp, operation_type) ==
    <<stamp.second, stamp.fragment, "anonymous", operation_type>>

\* audit is the sequence of session directories handed to the calls so far,
\* each with the files the directory holds.  The session directory of handle
\* i gets the files `names`: every handle of that directory shows them.
AddFiles(au, i, names) ==
    [j \in DOMAIN au |->
        IF au[j].dir = au[i].dir THEN [au[j] EXCEPT !.files = @ \cup names]
        ELSE au[j]]

\* The files of the directory `dir`, {} when it does not exist yet.
DirFiles(au, dir) == UNION {au[j].files : j \in {j \in DOMAIN au : au[j].dir = dir}}

\* http_server.create_audit_session: mkdir(exist_ok=True) of the session
\* directory, which is new unless a directory of that name exists already.
create_audit_session(au, operation_type, stamp) ==
    LET dir == session_dir_name(stamp, operation_type)
    IN  Append(au, [op |-> operation_type, dir |-> dir,
                    files |-> DirFiles(au, dir)])

\* A handler's way out of its try block: a return (after log_audit_response
\* with the artifacts named) or an exception on its way to the except clause.
\* open: the AzureImageGenerator context is still open at that point.
Ret(content, artifacts, evs, cs, fs, au, open) ==
    [kind |-> "return", content |-> content, exc |-> NoExc,
     artifacts |-> artifacts, log |-> evs, calls |-> cs, files |-> fs,
     audit |-> au, open |-> open]

Exc(exc, evs, cs, fs, au) ==
    [kind |-> "exc", content |-> <<>>, exc |-> exc, artifacts |-> {},
     log |-> evs, calls |-> cs, files |-> fs, audit |-> au, open |-> FALSE]

\* A handler that hands its content blocks back in reverse order.
RECURSIVE Reverse(_)
Reverse(seq) == IF seq = <<>> THEN <<>> ELSE Reverse(Tail(seq)) \o <<Head(seq)>>

Returned_reversed(content, evs, cs, fs, au) ==
    [ret |-> "return", content |-> Reverse(content), exc |-> NoExc, log |-> evs,
     calls |-> cs, files |-> fs, audit |-> au]

\* What a handler hands back to its caller.
Returned(content, evs, cs, fs, au) ==
    [ret |-> "return", content |-> content, exc |-> NoExc, log |-> evs,
     calls |-> cs, files |-> fs, audit |-> au]

Raised(exc, evs, cs, fs, au) ==
    [ret |-> "raise", content |-> <<>>, exc |-> exc, log |-> evs,
     calls |-> cs, files |-> fs, audit |-> au]

ArtifactEvents(artifacts) ==
    (IF "result.png" \in artifacts THEN <<"write_result_png">> ELSE <<>>)
    \o (IF "output" \in artifacts THEN <<"copy_output">> ELSE <<>>)

\* A context manager whose __aexit__ leaves the HTTP client open.
CloseEvents_leaving_open(open) == <<>>

CloseEvents(open) == IF open THEN <<"client.aclose">> ELSE <<>>

\* The tail of http_server.handle_generate_image / handle_edit_image: the
\* log_audit_response that precedes every return, and the except clause
\* (which calls log_audit_response again, outside any try).
hs_finish(what, pre, w) ==
    LET i == Len(pre.audit)
        failing == w.audit \in {"response_once", "response_always"}
        disk == OSError(<<"No space left on device">>)
    IN  IF pre.kind = "return" /\ ~ failing
        THEN Returned(pre.content,
                      pre.log \o <<"log_audit_response">>
                          \o ArtifactEvents(pre.artifacts)
                          \o CloseEvents(pre.open),
                      pre.calls, pre.files,
                      AddFiles(pre.audit, i, {"response.json"} \cup pre.artifacts))
        ELSE IF pre.kind = "return" /\ w.audit = "response_once"
        THEN Returned(<<TextBlock(<<what, disk.msg>>)>>,
                      pre.log \o <<"log_audit_response:failed">>
                          \o CloseEvents(pre.open) \o <<"log_audit_response">>,
                      pre.calls, pre.files,
                      AddFiles(pre.audit, i, {"response.json"}))
        ELSE IF pre.kind = "return"
        THEN Raised(disk,
                    pre.log \o <<"log_audit_response:failed">>
                        \o CloseEvents(pre.open)
                        \o <<"log_audit_response:failed">>,
                    pre.calls, pre.files, pre.audit)
        ELSE IF failing
        THEN Raised(disk, pre.log \o <<"log_audit_response:failed">>,
                    pre.calls, pre.files, pre.audit)
        ELSE Returned(<<TextBlock(<<what, pre.exc.msg>>)>>,
                      pre.log \o <<"log_audit_response">>,
                      pre.calls, pre.files,
                      AddFiles(pre.audit, i, {"response.json"}))

\* The try block of http_server.handle_generate_image; au already holds the
\* session directory.
hs_generate_try(arguments, e, fs, au, w) ==
    IF ~ IsMap(arguments)
    THEN Exc(AttributeError(<<"object has no attribute 'get'">>), <<>>, <<>>, fs, au)
    ELSE
    LET args == arguments[2]
        prompt == Get(args, "prompt", JTxt(<<>>))
        size == Get(args, "size", default_image_size(e))
        output_path == Get(args, "output_path", JNull)
        au1 == AddFiles(au, Len(au), {"request.json"})
        cfg == hs_get_azure_config(e)
        call == CallRecord("generate_image", JNull, prompt, size, output_path)
        r == generate_image(prompt, size, output_path, fs, w.upstream)
    IN  IF w.audit = "request"
        THEN Exc(OSError(<<"No space left on device">>),
                 <<"log_audit_request:failed">>, <<>>, fs, au)
        ELSE IF ~ cfg.ok
        THEN Ret(<<TextBlock(<<"Azure configuration error: {}", cfg.exc.msg>>)>>,
                 {}, <<"log_audit_request", "get_azure_config">>, <<>>, fs, au1,
                 FALSE)
        ELSE IF prompt[1] # "txt"
        THEN Exc(AttributeError(<<"object has no attribute 'strip'">>),
                 <<"log_audit_request", "get_azure_config">>, <<>>, fs, au1)
        ELSE IF ~ hs_is_english_text(prompt[2])
        THEN Ret(<<TextBlock(<<"Prompt must be in English. Please use English to describe the image you want to generate.">>)>>,
                 {}, <<"log_audit_request", "get_azure_config">>, <<>>, fs, au1,
                 FALSE)
        ELSE IF ~ validate_image_size(size)
        THEN Ret(<<TextBlock(<<"Unsupported image size: {}. Supported sizes: 1024x1024, 1792x1024, 1024x1792", size>>)>>,
                 {}, <<"log_audit_request", "get_azure_config">>, <<>>, fs, au1,
                 FALSE)
        ELSE IF ~ r.ok
        THEN Exc(r.exc,
                 <<"log_audit_request", "get_azure_config", "AzureImageGenerator">>
                     \o r.log \o <<"client.aclose">>,
                 <<call>>, r.files, au1)
        ELSE IF Truthy(output_path)
        THEN Ret(<<TextBlock(<<"Image successfully generated and saved to: {}", r.value>>)>>,
                 IF r.value \in DOMAIN r.files THEN {"output"} ELSE {},
                 <<"log_audit_request", "get_azure_config", "AzureImageGenerator">>
                     \o r.log,
                 <<call>>, r.files, au1, TRUE)
        ELSE Ret(<<TextBlock(<<"Image generation successful, prompt: '{}', size: {}", prompt, size>>),
                   ImageBlock(b64encode(r.value))>>,
                 {"result.png"},
                 <<"log_audit_request", "get_azure_config", "AzureImageGenerator">>
                     \o r.log,
                 <<call>>, r.files, au1, TRUE)

\* A handler that validates the prompt before it opens the audit session.
hs_handle_generate_image_validating_first(arguments, e, fs, au, w) ==
    LET prompt == IF IsMap(arguments) THEN Get(arguments[2], "prompt", JTxt(<<>>))
                  ELSE JNull
        pre == hs_generate_try(arguments, e, fs,
                               create_audit_session(au, "generate_image", w.stamp), w)
    IN  IF prompt[1] = "txt" /\ ~ hs_is_english_text(prompt[2])
        THEN Returned(<<TextBlock(<<"Prompt must be in English. Please use English to describe the image you want to generate.">>)>>,
                      <<>>, <<>>, fs, au)
        ELSE hs_finish("Error generating image: {}",
                       [pre EXCEPT !.log = <<"create_audit_session">> \o @], w)

\* http_server.handle_generate_image(arguments)
hs_handle_generate_image(arguments, e, fs, au, w) ==
    IF w.audit = "create"
    THEN Raised(OSError(<<"No space left on device">>),
                <<"create_audit_session:failed">>, <<>>, fs, au)
    ELSE LET pre == hs_generate_try(arguments, e, fs,
                                    create_audit_session(au, "generate_image", w.stamp), w)
         IN  hs_finish("Error generating image: {}",
                       [pre EXCEPT !.log = <<"create_audit_session">> \o @], w)


\* The suffix appended twice.
edited_prompt_twice(args) ==
    LET given == Get(args, "prompt", JTxt(<<>>))
    IN  IF given[1] = "txt" THEN JTxt(given[2] \o EDIT_SUFFIX \o EDIT_SUFFIX)
        ELSE Missing

\* prompt = arguments.get("prompt", "") + " (and all other elements exactly
\* the same)": the str, or Missing when the + raises TypeError.
edited_prompt(args) ==
    LET given == Get(args, "prompt", JTxt(<<>>))
    IN  IF given[1] = "txt" THEN JTxt(given[2] \o EDIT_SUFFIX) ELSE Missing

\* os.path.exists(path) for a str path.
exists(fs, path) == path \in DOMAIN fs

\* The try block of http_server.handle_edit_image; au already holds the
\* session directory.
hs_edit_try(arguments, e, fs, au, w) ==
    IF ~ IsMap(arguments)
    THEN Exc(AttributeError(<<"object has no attribute 'get'">>), <<>>, <<>>, fs, au)
    ELSE
    LET args == arguments[2]
        image_path == Get(args, "image_path", JStr(""))
        prompt == edited_prompt(args)
        size == Get(args, "size", JNull)
        output_path == Get(args, "output_path", JNull)
        i == Len(au)
        au1 == AddFiles(au, i, {"request.json"})
        copied == exists(fs, image_path)
        au2 == IF copied THEN AddFiles(au1, i, {"input"}) ELSE au1
        evs == <<"log_audit_request", "os.path.exists">>
                   \o (IF copied THEN <<"copy_input">> ELSE <<>>)
                   \o <<"get_azure_config">>
        cfg == hs_get_azure_config(e)
        call == CallRecord("edit_image", image_path, prompt, size, output_path)
        r == edit_image(image_path, prompt, size, output_path, fs, w.upstream,
                        w.dims)
    IN  IF prompt = Missing
        THEN Exc(TypeError(<<"unsupported operand type(s) for +">>), <<>>, <<>>,
                 fs, au)
        ELSE IF w.audit = "request"
        THEN Exc(OSError(<<"No space left on device">>),
                 <<"log_audit_request:failed">>, <<>>, fs, au)
        ELSE IF image_path[1] # "str"
        THEN Exc(TypeError(<<"stat: path should be string, bytes, os.PathLike or integer">>),
                 <<"log_audit_request", "os.path.exists">>, <<>>, fs, au1)
        ELSE IF copied /\ w.audit = "copy"
        THEN Exc(OSError(<<"No space left on device">>),
                 <<"log_audit_request", "os.path.exists", "copy_input:failed">>,
                 <<>>, fs, au1)
        ELSE IF ~ cfg.ok
        THEN Ret(<<TextBlock(<<"Azure configuration error: {}", cfg.exc.msg>>)>>,
                 {}, evs, <<>>, fs, au2, FALSE)
        ELSE IF ~ hs_is_english_text(prompt[2])
        THEN Ret(<<TextBlock(<<"Prompt must be in English. Please use English to describe how you want to edit the image.">>)>>,
                 {}, evs, <<>>, fs, au2, FALSE)
        ELSE IF ~ exists(fs, image_path)
        THEN Ret(<<TextBlock(<<"Error: Image file not found {}", image_path>>)>>,
                 {}, evs \o <<"os.path.exists">>, <<>>, fs, au2, FALSE)
        ELSE IF ~ r.ok
        THEN Exc(r.exc,
                 evs \o <<"os.path.exists", "AzureImageGenerator">> \o r.log
                     \o <<"client.aclose">>,
                 <<call>>, r.files, au2)
        ELSE IF Truthy(output_path)
        THEN Ret(<<TextBlock(<<"Image successfully edited and saved to: {}", r.value>>)>>,
                 IF r.value \in DOMAIN r.files THEN {"output"} ELSE {},
                 evs \o <<"os.path.exists", "AzureImageGenerator">> \o r.log,
                 <<call>>, r.files, au2, TRUE)
        ELSE Ret(<<TextBlock(<<"Image editing successful, edit prompt: '{}', source file: {}", prompt, image_path>>),
                   ImageBlock(b64encode(r.value))>>,
                 {"result.png"},
                 evs \o <<"os.path.exists", "AzureImageGenerator">> \o r.log,
                 <<call>>, r.files, au2, TRUE)

\* http_server.handle_edit_image(arguments)
hs_handle_edit_image(arguments, e, fs, au, w) ==
    IF w.audit = "create"
    THEN Raised(OSError(<<"No space left on device">>),
                <<"create_audit_session:failed">>, <<>>, fs, au)
    ELSE LET pre == hs_edit_try(arguments, e, fs,
                                create_audit_session(au, "edit_image", w.stamp), w)
         IN  hs_finish("Error editing image: {}",
                       [pre EXCEPT !.log = <<"create_audit_session">> \o @], w)

\* --------------------------------------------------------- mcp_server.py

\* mcp_server.handle_generate_image(arguments): no audit trail; every
\* exception of the body ends in the except clause's text block.
ms_handle_generate_image(arguments, e, fs, au, w) ==
    LET args == arguments[2]
        prompt == Get(args, "prompt", JTxt(<<>>))
        size == Get(args, "size", default_image_size(e))
        output_path == Get(args, "output_path", JNull)
        cfg == ms_get_azure_config(e)
        call == CallRecord("generate_image", JNull, prompt, size, output_path)
        r == generate_image(prompt, size, output_path, fs, w.upstream)
        what == "Error generating image: {}"
    IN  IF ~ IsMap(arguments)
        THEN Returned(<<TextBlock(<<what, <<"object has no attribute 'get'">>>>)>>,
                      <<>>, <<>>, fs, au)
        ELSE IF ~ cfg.ok
        THEN Returned(<<TextBlock(<<"Azure configuration error: {}", cfg.exc.msg>>)>>,
                      <<"get_azure_config">>, <<>>, fs, au)
        ELSE IF prompt[1] # "txt"
        THEN Returned(<<TextBlock(<<what, <<"object has no attribute 'strip'">>>>)>>,
                      <<"get_azure_config">>, <<>>, fs, au)
        ELSE IF ~ ms_is_english_text(prompt[2])
        THEN Returned(<<TextBlock(<<"Prompt must be in English. Please use English to describe the image you want to generate.">>)>>,
                      <<"get_azure_config">>, <<>>, fs, au)
        ELSE IF ~ validate_image_size(size)
        THEN Returned(<<TextBlock(<<"Unsupported image size: {}. Supported sizes: 1024x1024, 1792x1024, 1024x1792", size>>)>>,
                      <<"get_azure_config">>, <<>>, fs, au)
        ELSE IF ~ r.ok
        THEN Returned(<<TextBlock(<<what, r.exc.msg>>)>>,
                      <<"get_azure_config", "AzureImageGenerator">> \o r.log
                          \o <<"client.aclose">>,
                      <<call>>, r.files, au)
        ELSE IF Truthy(output_path)
        THEN Returned(<<TextBlock(<<"Image successfully generated and saved to: {}", r.value>>)>>,
                      <<"get_azure_config", "AzureImageGenerator">> \o r.log
                          \o <<"client.aclose">>,
                      <<call>>, r.files, au)
        ELSE Returned(<<TextBlock(<<"Image generation successful, prompt: '{}', size: {}", prompt, size>>),
                        ImageBlock(b64encode(r.value))>>,
                      <<"get_azure_config", "AzureImageGenerator">> \o r.log
                          \o <<"client.aclose">>,
                      <<call>>, r.files, au)

\* mcp_server.handle_edit_image(arguments)
ms_handle_edit_image(arguments, e, fs, au, w) ==
    LET args == arguments[2]
        image_path == Get(args, "image_path", JNull)
        prompt == edited_prompt(args)
        size == Get(args, "size", JNull)
        output_path == Get(args, "output_path", JNull)
        cfg == ms_get_azure_config(e)
        call == CallRecord("edit_image", image_path, prompt, size, output_path)
        r == edit_image(image_path, prompt, size, output_path, fs, w.upstream,
                        w.dims)
        what == "Error editing image: {}"
        evs == <<"get_azure_config", "os.path.exists", "AzureImageGenerator">>
    IN  IF ~ IsMap(arguments)
        THEN Returned(<<TextBlock(<<what, <<"object has no attribute 'get'">>>>)>>,
                      <<>>, <<>>, fs, au)
        ELSE IF prompt = Missing
        THEN Returned(<<TextBlock(<<what, <<"unsupported operand type(s) for +">>>>)>>,
                      <<>>, <<>>, fs, au)
        ELSE IF ~ Truthy(image_path)
        THEN Returned(<<TextBlock(<<"image_path parameter is required">>)>>,
                      <<>>, <<>>, fs, au)
        ELSE IF ~ cfg.ok
        THEN Returned(<<TextBlock(<<"Azure configuration error: {}", cfg.exc.msg>>)>>,
                      <<"get_azure_config">>, <<>>, fs, au)
        ELSE IF ~ ms_is_english_text(prompt[2])
        THEN Returned(<<TextBlock(<<"Prompt must be in English. Please use English to describe how you want to edit the image.">>)>>,
                      <<"get_azure_config">>, <<>>, fs, au)
        ELSE IF ~ exists(fs, image_path)
        THEN Returned(<<TextBlock(<<"Error: Image file not found {}", image_path>>)>>,
                      <<"get_azure_config", "os.path.exists">>, <<>>, fs, au)
        ELSE IF ~ r.ok
        THEN Returned(<<TextBlock(<<what, r.exc.msg>>)>>,
                      evs \o r.log \o <<"client.aclose">>, <<call>>, r.files, au)
        ELSE IF Truthy(output_path)
        THEN Returned(<<TextBlock(<<"Image successfully edited and saved to: {}", r.value>>)>>,
                      evs \o r.log \o <<"client.aclose">>, <<call>>, r.files, au)
        ELSE Returned(<<TextBlock(<<"Image editing successful, edit prompt: '{}', source file: {}", prompt, image_path>>),
                        ImageBlock(b64encode(r.value))>>,
                      evs \o r.log \o <<"client.aclose">>, <<call>>, r.files, au)

\* mcp_server.handle_call_tool(name, arguments): `arguments or {}`, and a
\* text block for any other name.
or_empty(arguments) == IF Truthy(arguments) THEN arguments ELSE JMap(EmptyDict)

ms_handle_call_tool(name, arguments, e, fs, au, w) ==
    IF name = JStr("generate_image")
    THEN ms_handle_generate_image(or_empty(arguments), e, fs, au, w)
    ELSE IF name = JStr("edit_image")
    THEN ms_handle_edit_image(or_empty(arguments), e, fs, au, w)
    ELSE Returned(<<TextBlock(<<"Error: Unknown tool '{}'", name>>)>>,
                  <<>>, <<>>, fs, au)


\* ------------------------------------------------------ mcp_server_http.py

\* An image_data_base64 str is a sequence of tokens: "data:", a media type,
\* ",", " " (white space), and payload tokens.  The payload token that is the
\* base64 text of Bytes(x) is x itself; "abcde" is no base64 text.
RECURSIVE lstrip_tok(_)
lstrip_tok(ts) ==
    IF ts = <<>> THEN <<>>
    ELSE IF Head(ts) = " " THEN lstrip_tok(Tail(ts))
    ELSE ts

RECURSIVE rstrip_tok(_)
rstrip_tok(ts) ==
    IF ts = <<>> THEN <<>>
    ELSE IF ts[Len(ts)] = " " THEN rstrip_tok(SubSeq(ts, 1, Len(ts) - 1))
    ELSE ts

strip_tok(ts) == rstrip_tok(lstrip_tok(ts))

\* base64_data.split(',', 1)[1]
RECURSIVE after_first_comma(_)
after_first_comma(ts) ==
    IF ts = <<>> THEN <<>>
    ELSE IF Head(ts) = "," THEN Tail(ts)
    ELSE after_first_comma(Tail(ts))

has_comma(ts) == \E i \in 1..Len(ts) : ts[i] = ","

ValidPayloads == {"uploaded"}

\* binascii.a2b_base64 in its default, non-strict mode discards the characters
\* outside the base64 alphabet before it decodes: white space and commas.
RECURSIVE discard_non_alphabet(_)
discard_non_alphabet(ts) ==
    IF ts = <<>> THEN <<>>
    ELSE IF Head(ts) \in {" ", ","} THEN discard_non_alphabet(Tail(ts))
    ELSE <<Head(ts)>> \o discard_non_alphabet(Tail(ts))

\* base64.b64decode(base64_data): the bytes, or Missing when it raises.
b64decode(ts) ==
    LET cs == discard_non_alphabet(ts)
    IN  IF cs = <<>> THEN Bytes("")
        ELSE IF Len(cs) = 1 /\ cs[1] \in ValidPayloads THEN Bytes(cs[1])
        ELSE Missing

TEMP_PATH == JStr("/tmp/tmpfile.png")

WithFile(fs, path, data) ==
    [q \in DOMAIN fs \cup {path} |-> IF q = path THEN data ELSE fs[q]]

WithoutFile(fs, path) == [q \in DOMAIN fs \ {path} |-> fs[q]]

\* mcp_server_http.handle_generate_image(arguments)
mh_handle_generate_image(arguments, e, fs, au, w) ==
    LET args == arguments[2]
        prompt == Get(args, "prompt", JTxt(<<>>))
        size == Get(args, "size", default_image_size(e))
        output_path == Get(args, "output_path", JNull)
        cfg == mh_get_azure_config(e)
        call == CallRecord("generate_image", JNull, prompt, size, output_path)
        r == generate_image(prompt, size, output_path, fs, w.upstream)
        what == "Error generating image: {}"
        evs == <<"get_azure_config", "AzureImageGenerator">>
    IN  IF ~ IsMap(arguments)
        THEN Returned(<<TextBlock(<<what, <<"object has no attribute 'get'">>>>)>>,
                      <<>>, <<>>, fs, au)
        ELSE IF ~ cfg.ok
        THEN Returned(<<TextBlock(<<"Azure configuration error: {}", cfg.exc.msg>>)>>,
                      <<"get_azure_config">>, <<>>, fs, au)
        ELSE IF prompt[1] # "txt"
        THEN Returned(<<TextBlock(<<what, <<"object has no attribute 'strip'">>>>)>>,
                      <<"get_azure_config">>, <<>>, fs, au)
        ELSE IF ~ mh_is_english_text(prompt[2])
        THEN Returned(<<TextBlock(<<"Prompt must be in English. Please use English to describe the image you want to generate.">>)>>,
                      <<"get_azure_config">>, <<>>, fs, au)
        ELSE IF ~ validate_image_size(size)
        THEN Returned(<<TextBlock(<<"Unsupported image size: {}. Supported sizes: 1024x1024, 1792x1024, 1024x1792", size>>)>>,
                      <<"get_azure_config">>, <<>>, fs, au)
        ELSE IF ~ r.ok
        THEN Returned(<<TextBlock(<<what, r.exc.msg>>)>>,
                      evs \o r.log \o <<"client.aclose">>, <<call>>, r.files, au)
        ELSE IF Truthy(output_path)
        THEN Returned(<<TextBlock(<<"Image successfully generated. Saved to server at: {}", r.value>>),
                        ImageBlock(b64encode(r.files[output_path]))>>,
                      evs \o r.log \o <<"read_output", "client.aclose">>,
                      <<call>>, r.files, au)
        ELSE Returned(<<TextBlock(<<"Image generation successful, prompt: '{}', size: {}", prompt, size>>),
                        ImageBlock(b64encode(r.value))>>,
                      evs \o r.log \o <<"client.aclose">>, <<call>>, r.files, au)

\* mcp_server_http.handle_edit_image(arguments)
mh_handle_edit_image(arguments, e, fs, au, w) ==
    LET args == arguments[2]
        image_data_base64 == Get(args, "image_data_base64", JNull)
        prompt == edited_prompt(args)
        size == Get(args, "size", JNull)
        output_path == Get(args, "output_path", JNull)
        cfg == mh_get_azure_config(e)
        stripped_data == strip_tok(image_data_base64[2])
        is_data_url == stripped_data # <<>> /\ Head(stripped_data) = "data:"
        base64_data == IF is_data_url THEN after_first_comma(stripped_data)
                       ELSE stripped_data
        image_bytes == b64decode(base64_data)
        fs1 == WithFile(fs, TEMP_PATH, image_bytes)
        call == CallRecord("edit_image", TEMP_PATH, prompt, size, output_path)
        r == edit_image(TEMP_PATH, prompt, size, output_path, fs1, w.upstream,
                        w.dims)
        fs2 == WithoutFile(r.files, TEMP_PATH)
        what == "Error editing image: {}"
        evs == <<"get_azure_config", "b64decode", "write_temp",
                 "AzureImageGenerator">>
    IN  IF ~ IsMap(arguments)
        THEN Returned(<<TextBlock(<<what, <<"object has no attribute 'get'">>>>)>>,
                      <<>>, <<>>, fs, au)
        ELSE IF prompt = Missing
        THEN Returned(<<TextBlock(<<what, <<"unsupported operand type(s) for +">>>>)>>,
                      <<>>, <<>>, fs, au)
        ELSE IF ~ Truthy(image_data_base64)
        THEN Returned(<<TextBlock(<<"'image_data_base64' parameter is required in HTTP mode">>)>>,
                      <<>>, <<>>, fs, au)
        ELSE IF ~ cfg.ok
        THEN Returned(<<TextBlock(<<"Azure configuration error: {}", cfg.exc.msg>>)>>,
                      <<"get_azure_config">>, <<>>, fs, au)
        ELSE IF ~ mh_is_english_text(prompt[2])
        THEN Returned(<<TextBlock(<<"Prompt must be in English. Please use English to describe how you want to edit the image.">>)>>,
                      <<"get_azure_config">>, <<>>, fs, au)
        ELSE IF image_data_base64[1] # "b64str"
        THEN Returned(<<TextBlock(<<"Failed to decode base64 image data: {}",
                                    <<"object has no attribute 'strip'">>>>)>>,
                      <<"get_azure_config">>, <<>>, fs, au)
        ELSE IF is_data_url /\ ~ has_comma(stripped_data)
        THEN Returned(<<TextBlock(<<"Invalid Data URL format: missing comma separator">>)>>,
                      <<"get_azure_config">>, <<>>, fs, au)
        ELSE IF image_bytes = Missing
        THEN Returned(<<TextBlock(<<"Failed to decode base64 image data: {}",
                                    <<"Incorrect padding">>>>)>>,
                      <<"get_azure_config", "b64decode">>, <<>>, fs, au)
        ELSE IF ~ r.ok
        THEN Returned(<<TextBlock(<<what, r.exc.msg>>)>>,
                      evs \o r.log \o <<"client.aclose", "unlink_temp">>,
                      <<call>>, fs2, au)
        ELSE IF Truthy(output_path)
        THEN Returned(<<TextBlock(<<"Image successfully edited. Saved to server at: {}", r.value>>),
                        ImageBlock(b64encode(r.files[output_path]))>>,
                      evs \o r.log \o <<"read_output", "client.aclose", "unlink_temp">>,
                      <<call>>, fs2, au)
        ELSE Returned(<<TextBlock(<<"Image editing successful, edit prompt: '{}'", prompt>>),
                        ImageBlock(b64encode(r.value))>>,
                      evs \o r.log \o <<"client.aclose", "unlink_temp">>,
                      <<call>>, fs2, au)

\* mcp_server_http.call_tool(name, arguments)
mh_call_tool(name, arguments, e, fs, au, w) ==
    IF name = JStr("generate_image")
    THEN mh_handle_generate_image(or_empty(arguments), e, fs, au, w)
    ELSE IF name = JStr("edit_image")
    THEN mh_handle_edit_image(or_empty(arguments), e, fs, au, w)
    ELSE Returned(<<TextBlock(<<"Error: Unknown tool '{}'", name>>)>>,
                  <<>>, <<>>, fs, au)


\* ------------------------------------------------------------- tool registry

Tool(name, properties, required, size_default) ==
    [name |-> name, properties |-> properties, required |-> required,
     size_default |-> size_default,
     size_enum |-> <<"1024x1024", "1792x1024", "1024x1792">>]

\* The tools list built by http_server.handle_mcp_request for tools/list.
hs_tools(e) ==
    <<Tool("generate_image", {"prompt", "size", "output_path"}, <<"prompt">>,
           default_image_size(e)),
      Tool("edit_image", {"image_path", "prompt", "size", "output_path"},
           <<"image_path", "prompt">>, JNull)>>

\* mcp_server_http.get_tools_list
mh_get_tools_list(e) ==
    <<Tool("generate_image", {"prompt", "size", "output_path"},
           <<"prompt", "size">>, default_image_size(e)),
      Tool("edit_image", {"image_data_base64", "prompt", "size", "output_path"},
           <<"image_data_base64", "prompt">>, JNull)>>

\* mcp_server.handle_list_tools
ms_handle_list_tools(e) ==
    <<Tool("generate_image", {"prompt", "size", "output_path"},
           <<"prompt", "size", "output_path">>, default_image_size(e)),
      Tool("edit_image", {"image_path", "prompt", "size", "output_path"},
           <<"image_path", "prompt", "size", "output_path">>, JNull)>>

PROTOCOL_VERSION == "2024-11-05"

\* ---------------------------------------------------------------- responses

PARSE_ERROR == -32700
METHOD_NOT_FOUND == -32601
INVALID_PARAMS == -32602
INTERNAL_ERROR == -32603

\* What the HTTP client gets: a JSON body with a status, an empty body with a
\* status, or the framework's own 500 page when the request handler raised.
JsonResponse(status, body) ==
    [kind |-> "json", status |-> status, body |-> body, exc |-> NoExc]

EmptyResponse(status) ==
    [kind |-> "empty", status |-> status, body |-> EmptyDict, exc |-> NoExc]

HandlerRaised(exc) ==
    [kind |-> "raised", status |-> 500, body |-> EmptyDict, exc |-> exc]

\* The stdio SDK got a content list back from handle_call_tool / a tool list
\* back from handle_list_tools (the handler did not raise).
ToolReturn(result) ==
    [kind |-> "tool_return", status |-> 0, body |-> Obj([result |-> result]),
     exc |-> NoExc]

NoResp == [kind |-> "none", status |-> 0, body |-> EmptyDict, exc |-> NoExc]

\* A create_mcp_error that loses its code argument and reports every error
\* as an internal one.
create_mcp_error_always_internal(code, message) ==
    JMap([code |-> INTERNAL_ERROR, message |-> message])

\* http_server.create_mcp_error(code, message)
create_mcp_error(code, message) == JMap([code |-> code, message |-> message])

\* http_server.create_mcp_response(request_id, result, error); an argument
\* left at its default None is Missing here, and `if error:` picks the member.
create_mcp_response(request_id, result, error) ==
    IF error # Missing
    THEN Obj([jsonrpc |-> JStr("2.0"), id |-> request_id, error |-> error])
    ELSE Obj([jsonrpc |-> JStr("2.0"), id |-> request_id, result |-> result])

Malformed == <<"malformed">>

Outcome(response, evs, cs, fs, au) ==
    [resp |-> response, log |-> evs, calls |-> cs, files |-> fs, audit |-> au]

\* ------------------------------------------------------------ http_server.py

\* The `except Exception` clause of http_server.handle_mcp_request, for an
\* exception raised after request_id was bound.
hs_internal_error(request_id, exc, evs, cs, fs, au) ==
    Outcome(JsonResponse(200,
                create_mcp_response(request_id, Missing,
                    create_mcp_error(INTERNAL_ERROR,
                                     <<"Internal error: {}", exc.msg>>))),
            evs, cs, fs, au)

\* `result = await handle_...(arguments); return create_mcp_response(
\* request_id, {"content": result})`, h the handler's way out.
hs_call_result(request_id, h) ==
    IF h.ret = "return"
    THEN Outcome(JsonResponse(200,
                     create_mcp_response(request_id,
                         JMap([content |-> h.content]), Missing)),
                 h.log, h.calls, h.files, h.audit)
    ELSE hs_internal_error(request_id, h.exc, h.log, h.calls, h.files, h.audit)

\* The tools/call branch of http_server.handle_mcp_request.
hs_tools_call(request_id, params, e, fs, au, w) ==
    LET tool_name == Get(params[2], "name", JNull)
        arguments == Get(params[2], "arguments", JMap(EmptyDict))
    IN  IF ~ IsMap(params)
        THEN hs_internal_error(request_id,
                 AttributeError(<<"object has no attribute 'get'">>),
                 <<>>, <<>>, fs, au)
        ELSE IF tool_name = JStr("generate_image")
        THEN hs_call_result(request_id,
                            hs_handle_generate_image(arguments, e, fs, au, w))
        ELSE IF tool_name = JStr("edit_image")
        THEN hs_call_result(request_id,
                            hs_handle_edit_image(arguments, e, fs, au, w))
        ELSE Outcome(JsonResponse(200,
                         create_mcp_response(request_id, Missing,
                             create_mcp_error(INVALID_PARAMS,
                                 <<"Unknown tool: {}", tool_name>>))),
                     <<>>, <<>>, fs, au)

\* http_server.handle_mcp_request(request), body the parsed request body or
\* Malformed when request.json() raises json.JSONDecodeError.
hs_handle_mcp_request(body, e, fs, au, w) ==
    IF body = Malformed
    THEN Outcome(JsonResponse(200,
                     create_mcp_response(JNull, Missing,
                         create_mcp_error(PARSE_ERROR, <<"Parse error">>))),
                 <<>>, <<>>, fs, au)
    ELSE IF ~ IsMap(body)
    THEN \* body.get raises AttributeError; the except clause then reads
         \* request_id, which was never bound, and raises itself.
         Outcome(HandlerRaised([type |-> "UnboundLocalError",
                                msg |-> <<"request_id">>]),
                 <<>>, <<>>, fs, au)
    ELSE
    LET method == Get(body[2], "method", JNull)
        params == Get(body[2], "params", JMap(EmptyDict))
        request_id == Get(body[2], "id", JNull)
    IN  IF method = JMethod(<<"initialize">>)
        THEN Outcome(JsonResponse(200,
                         create_mcp_response(request_id,
                             JMap([protocolVersion |-> PROTOCOL_VERSION,
                                   capabilities |-> "tools.listChanged=False",
                                   serverInfo |-> "azure-image-editor 1.0.0"]),
                             Missing)),
                     <<>>, <<>>, fs, au)
        ELSE IF method = JMethod(<<"tools/", "list">>)
        THEN Outcome(JsonResponse(200,
                         create_mcp_response(request_id,
                             JMap([tools |-> hs_tools(e)]), Missing)),
                     <<>>, <<>>, fs, au)
        ELSE IF method = JMethod(<<"tools/", "call">>)
        THEN hs_tools_call(request_id, params, e, fs, au, w)
        ELSE Outcome(JsonResponse(200,
                         create_mcp_response(request_id, Missing,
                             create_mcp_error(METHOD_NOT_FOUND,
                                 <<"Unknown method: {}", method>>))),
                     <<>>, <<>>, fs, au)


\* -------------------------------------------------------- mcp_server_http.py

\* The `except Exception` clause of mcp_server_http.handle_jsonrpc for a body
\* that is a dict: status 500, id body.get("id").
mh_internal_error(body, exc, fs, au) ==
    Outcome(JsonResponse(500,
                Obj([jsonrpc |-> JStr("2.0"),
                     id |-> Get(body[2], "id", JNull),
                     error |-> JMap([code |-> INTERNAL_ERROR,
                                     message |-> exc.msg])])),
            <<>>, <<>>, fs, au)

\* A dispatcher that sends messages without an id on to the method dispatch.
mh_handle_jsonrpc_answering_notifications(body, e, fs, au, w) ==
    IF body = Malformed
    THEN Outcome(JsonResponse(400,
                     Obj([jsonrpc |-> JStr("2.0"),
                          error |-> JMap([code |-> PARSE_ERROR,
                                          message |-> <<"Parse error">>])])),
                 <<>>, <<>>, fs, au)
    ELSE IF ~ IsMap(body)
    THEN \* body.get raises AttributeError in the try block and again in the
         \* except clause, which evaluates body.get("id").
         Outcome(HandlerRaised(AttributeError(<<"object has no attribute 'get'">>)),
                 <<>>, <<>>, fs, au)
    ELSE
    LET method == Get(body[2], "method", JNull)
        params == Get(body[2], "params", JMap(EmptyDict))
        request_id == Get(body[2], "id", JNull)
        h == mh_call_tool(Get(params[2], "name", JNull),
                          Get(params[2], "arguments", JMap(EmptyDict)),
                          e, fs, au, w)
    IN  IF FALSE
        THEN IF method = JMethod(<<"notifications/", "initialized">>)
             THEN Outcome(EmptyResponse(204), <<>>, <<>>, fs, au)
             ELSE IF method[1] # "segs"
             THEN mh_internal_error(body,
                      AttributeError(<<"object has no attribute 'startswith'">>),
                      fs, au)
             ELSE IF Head(method[2]) = "notifications/"
             THEN Outcome(EmptyResponse(204), <<>>, <<>>, fs, au)
             ELSE Outcome(EmptyResponse(204), <<>>, <<>>, fs, au)
        ELSE IF method = JMethod(<<"initialize">>)
        THEN Outcome(JsonResponse(200,
                         Obj([jsonrpc |-> JStr("2.0"), id |-> request_id,
                              result |-> JMap([protocolVersion |-> PROTOCOL_VERSION,
                                               capabilities |-> "tools={}",
                                               serverInfo |-> "azure-image-editor 1.0.0"])])),
                     <<>>, <<>>, fs, au)
        ELSE IF method = JMethod(<<"tools/", "list">>)
        THEN Outcome(JsonResponse(200,
                         Obj([jsonrpc |-> JStr("2.0"), id |-> request_id,
                              result |-> JMap([tools |-> mh_get_tools_list(e)])])),
                     <<>>, <<>>, fs, au)
        ELSE IF method = JMethod(<<"tools/", "call">>)
        THEN IF ~ IsMap(params)
             THEN mh_internal_error(body,
                      AttributeError(<<"object has no attribute 'get'">>), fs, au)
             ELSE Outcome(JsonResponse(200,
                              Obj([jsonrpc |-> JStr("2.0"), id |-> request_id,
                                   result |-> JMap([content |-> h.content])])),
                          h.log, h.calls, h.files, h.audit)
        ELSE Outcome(JsonResponse(400,
                         Obj([jsonrpc |-> JStr("2.0"), id |-> request_id,
                              error |-> JMap([code |-> METHOD_NOT_FOUND,
                                              message |-> <<"Method not found: {}", method>>])])),
                     <<>>, <<>>, fs, au)

\* mcp_server_http.handle_jsonrpc(request)
mh_handle_jsonrpc(body, e, fs, au, w) ==
    IF body = Malformed
    THEN Outcome(JsonResponse(400,
                     Obj([jsonrpc |-> JStr("2.0"),
                          error |-> JMap([code |-> PARSE_ERROR,
                                          message |-> <<"Parse error">>])])),
                 <<>>, <<>>, fs, au)
    ELSE IF ~ IsMap(body)
    THEN \* body.get raises AttributeError in the try block and again in the
         \* except clause, which evaluates body.get("id").
         Outcome(HandlerRaised(AttributeError(<<"object has no attribute 'get'">>)),
                 <<>>, <<>>, fs, au)
    ELSE
    LET method == Get(body[2], "method", JNull)
        params == Get(body[2], "params", JMap(EmptyDict))
        request_id == Get(body[2], "id", JNull)
        h == mh_call_tool(Get(params[2], "name", JNull),
                          Get(params[2], "arguments", JMap(EmptyDict)),
                          e, fs, au, w)
    IN  IF request_id = JNull
        THEN IF method = JMethod(<<"notifications/", "initialized">>)
             THEN Outcome(EmptyResponse(204), <<>>, <<>>, fs, au)
             ELSE IF method[1] # "segs"
             THEN mh_internal_error(body,
                      AttributeError(<<"object has no attribute 'startswith'">>),
                      fs, au)
             ELSE IF Head(method[2]) = "notifications/"
             THEN Outcome(EmptyResponse(204), <<>>, <<>>, fs, au)
             ELSE Outcome(EmptyResponse(204), <<>>, <<>>, fs, au)
        ELSE IF method = JMethod(<<"initialize">>)
        THEN Outcome(JsonResponse(200,
                         Obj([jsonrpc |-> JStr("2.0"), id |-> request_id,
                              result |-> JMap([protocolVersion |-> PROTOCOL_VERSION,
                                               capabilities |-> "tools={}",
                                               serverInfo |-> "azure-image-editor 1.0.0"])])),
                     <<>>, <<>>, fs, au)
        ELSE IF method = JMethod(<<"tools/", "list">>)
        THEN Outcome(JsonResponse(200,
                         Obj([jsonrpc |-> JStr("2.0"), id |-> request_id,
                              result |-> JMap([tools |-> mh_get_tools_list(e)])])),
                     <<>>, <<>>, fs, au)
        ELSE IF method = JMethod(<<"tools/", "call">>)
        THEN IF ~ IsMap(params)
             THEN mh_internal_error(body,
                      AttributeError(<<"object has no attribute 'get'">>), fs, au)
             ELSE Outcome(JsonResponse(200,
                              Obj([jsonrpc |-> JStr("2.0"), id |-> request_id,
                                   result |-> JMap([content |-> h.content])])),
                          h.log, h.calls, h.files, h.audit)
        ELSE Outcome(JsonResponse(400,
                         Obj([jsonrpc |-> JStr("2.0"), id |-> request_id,
                              error |-> JMap([code |-> METHOD_NOT_FOUND,
                                              message |-> <<"Method not found: {}", method>>])])),
                     <<>>, <<>>, fs, au)


\* ------------------------------------------------------------------ inputs

\* Requests one run answers.
MaxRequests == 2

PromptCat == JTxt(<<97, 32, 99, 97, 116>>)         \* "a cat"
PromptBlank == JTxt(<<32, 32>>)                      \* "  "
PromptNiHao == JTxt(<<20320, 22909>>)               \* U+4F60 U+597D
PromptMixed == JTxt(<<97, 32, 29483>>)              \* "a " U+732B
PromptKana == JTxt(<<12397, 12493>>)                \* U+306D U+30CD
PromptHangul == JTxt(<<44256>>)                      \* U+ACE0

Prompts ==
    {Missing, JNull, JTxt(<<>>), PromptBlank, PromptCat, PromptNiHao,
     PromptMixed, PromptKana, PromptHangul}

Sizes ==
    {Missing, JNull, JStr(""), JStr("1024x1024"), JStr("1792x1024"),
     JStr("1024x1792"), JStr("512x512")}

EditSizes == {Missing, JStr("1792x1024"), JStr("512x512")}

OutputPaths == {Missing, JNull, JStr(""), JStr("/out.png")}

IMG_PATH == JStr("/img.png")
NO_SUCH_PATH == JStr("/nonexistent.png")

ImagePaths == {Missing, JNull, JStr(""), IMG_PATH, NO_SUCH_PATH}

RawB64 == JB64(<<"uploaded">>)
DataUrl == JB64(<<"data:", "image/png;base64", ",", "uploaded">>)

\* A data URL with nothing after its comma, and one with white space around.
EmptyDataUrl == JB64(<<"data:", "image/png;base64", ",">>)
PaddedDataUrl == JB64(<<" ", "data:", "image/png;base64", ",", " ", "uploaded", " ">>)

ImageData ==
    {Missing, JNull, JB64(<<>>), RawB64, DataUrl, EmptyDataUrl, PaddedDataUrl,
     JB64(<<" ", "uploaded">>),
     JB64(<<"data:", "image/png;base64">>), JB64(<<"abcde">>)}

\* The image source an edit_image call names: by path, by payload, or both.
ImageSources ==
    {[image_path |-> p, image_data_base64 |-> Missing] : p \in ImagePaths}
    \cup {[image_path |-> Missing, image_data_base64 |-> d] : d \in ImageData}
    \cup {[image_path |-> IMG_PATH, image_data_base64 |-> RawB64]}

GenerateArguments ==
    {JMap(Obj([prompt |-> p, size |-> s, output_path |-> o])) :
        p \in Prompts, s \in Sizes, o \in OutputPaths}

EditArguments ==
    {JMap(Obj([image_path |-> src.image_path,
               image_data_base64 |-> src.image_data_base64,
               prompt |-> p, size |-> s, output_path |-> o])) :
        src \in ImageSources, p \in {Missing, JNull, PromptCat, PromptNiHao},
        s \in EditSizes, o \in {Missing, JStr("/out.png")}}

\* The arguments of the envelopes of AnyBodies.
FewArguments ==
    {Missing, JNull,
     JMap(Obj([prompt |-> PromptCat, size |-> JStr("1024x1024"),
               image_path |-> IMG_PATH, image_data_base64 |-> RawB64])),
     JMap(Obj([prompt |-> PromptNiHao, image_path |-> NO_SUCH_PATH]))}

ToolNames ==
    {Missing, JStr("generate_image"), JStr("edit_image"), JStr("unknown_tool")}

Ids == {Missing, JNull, JInt(0), JInt(7)}

Methods ==
    {Missing, JMethod(<<"initialize">>), JMethod(<<"tools/", "list">>),
     JMethod(<<"tools/", "call">>), JMethod(<<"notifications/", "initialized">>),
     JMethod(<<"notifications/", "cancelled">>), JMethod(<<"resources/", "list">>)}

FewParams ==
    {Missing, JNull, JList}
    \cup {JMap(Obj([name |-> n, arguments |-> a])) :
             n \in ToolNames, a \in FewArguments}

\* POST bodies of every shape: not JSON, JSON but no object, and envelopes.
AnyBodies ==
    {Malformed, JList, JNull}
    \cup {JMap(Obj([jsonrpc |-> JStr("2.0"), id |-> i, method |-> m,
                    params |-> p])) :
             i \in Ids, m \in Methods, p \in FewParams}

\* tools/call requests of the two tools, with arguments of every shape.
CallBodies(arguments) ==
    {JMap(Obj([jsonrpc |-> JStr("2.0"), id |-> JInt(7),
               method |-> JMethod(<<"tools/", "call">>),
               params |-> JMap(Obj([name |-> n, arguments |-> a]))])) :
        n \in {JStr("generate_image"), JStr("edit_image")}, a \in arguments}

\* What the world outside the server does during one request.
FIRST_STAMP == Stamp("20240101_120000", "1a2b3c4d")

Worlds ==
    [upstream : CollabOutcomes, audit : AuditFailures, dims : BOOLEAN,
     stamp : {FIRST_STAMP}]

\* The worlds in which the audit recorder does not fail.
QuietWorlds ==
    [upstream : CollabOutcomes, audit : {"none"}, dims : BOOLEAN,
     stamp : {FIRST_STAMP}]

FewWorlds ==
    [upstream : {"ok"}, audit : {"none", "create", "response_always"},
     dims : {TRUE}, stamp : {FIRST_STAMP}]
    \cup [upstream : {"status_error"}, audit : {"none"}, dims : {TRUE},
          stamp : {FIRST_STAMP}]

\* ------------------------------------------------------------- state machine

NoReq == [server |-> "none", body |-> JNull]

Init ==
    /\ env \in Environments
    /\ files = [q \in {IMG_PATH} |-> Bytes("uploaded")]
    /\ audit = <<>>
    /\ handled = 0
    /\ req = NoReq
    /\ resp = NoResp
    /\ log = <<>>
    /\ calls = <<>>
    /\ tasks = <<>>

\* A server whose requests write DEFAULT_IMAGE_SIZE into its environment.
Answer_setting_env(server, body, out) ==
    /\ req = NoReq
    /\ handled' = handled + 1
    /\ req' = [server |-> server, body |-> body]
    /\ resp' = out.resp
    /\ log' = out.log
    /\ calls' = out.calls
    /\ files' = out.files
    /\ audit' = out.audit
    /\ env' = [k \in DOMAIN env \cup {"DEFAULT_IMAGE_SIZE"} |->
                 IF k = "DEFAULT_IMAGE_SIZE" THEN JStr("640x480") ELSE env[k]]
    /\ UNCHANGED tasks

\* One request answered: out is what the entry point did with it.
Answer(server, body, out) ==
    /\ req = NoReq
    /\ handled' = handled + 1
    /\ req' = [server |-> server, body |-> body]
    /\ resp' = out.resp
    /\ log' = out.log
    /\ calls' = out.calls
    /\ files' = out.files
    /\ audit' = out.audit
    /\ UNCHANGED <<env, tasks>>

\* The clock and the uuid4 of the next create_audit_session.  Directory names
\* are only ever compared, so the first session of a run gets FIRST_STAMP and
\* a later one any stamp, the same second and the same fragment included.
NextStamps == IF audit = <<>> THEN {FIRST_STAMP} ELSE Stamps

Stamped(worlds) == {[w EXCEPT !.stamp = s] : w \in worlds, s \in NextStamps}

\* POST / on http_server.py
HsPost(body, w) ==
    Answer("http_server", body, hs_handle_mcp_request(body, env, files, audit, w))

\* POST / on mcp_server_http.py
MhPost(body, w) ==
    Answer("mcp_server_http", body, mh_handle_jsonrpc(body, env, files, audit, w))

\* The stdio SDK calls the handler registered with @server.call_tool().
MsCallTool(name, arguments, w) ==
    LET h == ms_handle_call_tool(name, arguments, env, files, audit, w)
    IN  Answer("mcp_server",
               JMap(Obj([name |-> name, arguments |-> arguments])),
               Outcome(ToolReturn(JMap([content |-> h.content])),
                       h.log, h.calls, h.files, h.audit))

\* The stdio SDK calls the handler registered with @server.list_tools().
MsListTools ==
    Answer("mcp_server", JMethod(<<"tools/", "list">>),
           Outcome(ToolReturn(JMap([tools |-> ms_handle_list_tools(env)])),
                   <<>>, <<>>, files, audit))

\* The transport has sent the answer; the server is ready for the next request.
Deliver ==
    /\ req # NoReq
    /\ req' = NoReq
    /\ resp' = NoResp
    /\ log' = <<>>
    /\ calls' = <<>>
    /\ UNCHANGED <<env, files, audit, handled, tasks>>

\* Calls with arguments of every shape that one run answers.
MaxCalls == 1

HsAny ==
    /\ handled < MaxRequests
    /\ \E b \in AnyBodies, w \in Stamped(FewWorlds) : HsPost(b, w)

MhAny ==
    /\ handled < MaxRequests
    /\ \E b \in AnyBodies, w \in FewWorlds : MhPost(b, w)

MsAny ==
    /\ handled < MaxRequests
    /\ \E n \in ToolNames \ {Missing}, a \in FewArguments \ {Missing}, w \in FewWorlds :
           MsCallTool(n, a, w)

MsList ==
    /\ handled < MaxRequests
    /\ MsListTools

\* tools/list requests interleaved with tools/call requests, MaxListed of them
\* in a row on any of the three entry points.
MaxListed == 3

ListBody ==
    JMap(Obj([jsonrpc |-> JStr("2.0"), id |-> JInt(7),
              method |-> JMethod(<<"tools/", "list">>)]))

WorkArguments ==
    {JMap(Obj([prompt |-> PromptCat, size |-> JStr("1024x1024"),
               image_path |-> IMG_PATH, image_data_base64 |-> RawB64,
               output_path |-> o])) : o \in {Missing, JStr("/out.png")}}

HsList ==
    /\ handled < MaxListed
    /\ HsPost(ListBody, CHOOSE w \in QuietWorlds : TRUE)

MhList ==
    /\ handled < MaxListed
    /\ MhPost(ListBody, CHOOSE w \in QuietWorlds : TRUE)

MsRelist ==
    /\ handled < MaxListed
    /\ MsListTools

HsWork ==
    /\ handled < MaxListed
    /\ \E b \in CallBodies(WorkArguments), w \in Stamped(FewWorlds) : HsPost(b, w)

MhWork ==
    /\ handled < MaxListed
    /\ \E b \in CallBodies(WorkArguments), w \in FewWorlds : MhPost(b, w)

MsWork ==
    /\ handled < MaxListed
    /\ \E n \in {JStr("generate_image"), JStr("edit_image")},
          a \in WorkArguments, w \in FewWorlds :
           MsCallTool(n, a, w)

HsCall ==
    /\ handled < MaxCalls
    /\ \E b \in CallBodies(GenerateArguments \cup EditArguments),
          w \in Stamped(Worlds) :
           HsPost(b, w)

MhCall ==
    /\ handled < MaxCalls
    /\ \E b \in CallBodies(GenerateArguments \cup EditArguments), w \in QuietWorlds :
           MhPost(b, w)

MsCall ==
    /\ handled < MaxCalls
    /\ \E n \in {JStr("generate_image"), JStr("edit_image")},
          a \in GenerateArguments \cup EditArguments, w \in QuietWorlds :
           MsCallTool(n, a, w)

\* Requests of every envelope shape, MaxRequests of them in a row.
Next ==
    \/ HsAny
    \/ MhAny
    \/ MsAny
    \/ MsList
    \/ Deliver

Spec == Init /\ [][Next]_vars

\* tools/call requests with arguments of every shape.
NextCalls ==
    \/ HsCall
    \/ MhCall
    \/ MsCall
    \/ Deliver

SpecCalls == Init /\ [][NextCalls]_vars

NextLists ==
    \/ HsList
    \/ MhList
    \/ MsRelist
    \/ HsWork
    \/ MhWork
    \/ MsWork
    \/ Deliver

SpecLists == Init /\ [][NextLists]_vars

\* is_english_text applied to texts of up to MaxTextLen characters: white
\* space, Latin letters, digits, punctuation, and the first and last character
\* of each tested range with their neighbours outside it.
MaxTextLen == 2

TextChars ==
    {32, 12288, 97, 48, 33,
     CJK_LO - 1, CJK_LO, CJK_HI, CJK_HI + 1,
     HIRAGANA_LO - 1, HIRAGANA_LO, HIRAGANA_HI, KATAKANA_LO, KATAKANA_HI,
     KATAKANA_HI + 1,
     HANGUL_LO - 1, HANGUL_LO, HANGUL_HI, HANGUL_HI + 1}

Texts == UNION {[1..n -> TextChars] : n \in 0..MaxTextLen}

InitText ==
    /\ env \in {EnvOf(GoodUrl, GoodKey, Deployment, Missing)}
    /\ files = [q \in {IMG_PATH} |-> Bytes("uploaded")]
    /\ audit = <<>>
    /\ handled = 0
    /\ req \in {[server |-> "is_english_text", body |-> JTxt(t)] : t \in Texts}
    /\ resp = NoResp
    /\ log = <<>>
    /\ calls = <<>>
    /\ tasks = <<>>

\* The three copies of is_english_text called with the text.
IsEnglishText ==
    /\ req.server = "is_english_text"
    /\ resp = NoResp
    /\ resp' = [kind |-> "verdict",
                http_server |-> hs_is_english_text(req.body[2]),
                mcp_server_http |-> mh_is_english_text(req.body[2]),
                mcp_server |-> ms_is_english_text(req.body[2])]
    /\ UNCHANGED <<env, files, audit, handled, req, log, calls, tasks>>

NextText == IsEnglishText

SpecText == InitText /\ [][NextText]_vars

\* get_azure_config called in environments whose variables are unset, empty,
\* blank, padded with white space, too short, or as they should be.
HttpUrl == <<"h", "t", "t", "p", ":", "/", "/", "x">>

EnvUrls ==
    {Missing, <<>>, <<" ", "\t">>, GoodUrl, HttpUrl, BadUrl,
     <<" ">> \o GoodUrl \o <<" ">>, <<"h", "t", "t", "p">>}

EnvKeys ==
    {Missing, <<>>, <<" ">>, GoodKey, ShortKey, ShortKey \o <<" ">>,
     <<" ">> \o GoodKey}

EnvDeployments == {Missing, <<>>, <<" ", " ">>, Deployment}

EnvModels == {Missing, <<" ">>, <<"m">>}

ConfigEnvironments ==
    {Obj([AZURE_BASE_URL |-> u, AZURE_API_KEY |-> k,
          AZURE_DEPLOYMENT_NAME |-> d, AZURE_MODEL |-> m]) :
        u \in EnvUrls, k \in EnvKeys, d \in EnvDeployments, m \in EnvModels}

InitConfig ==
    /\ env \in ConfigEnvironments
    /\ files = [q \in {IMG_PATH} |-> Bytes("uploaded")]
    /\ audit = <<>>
    /\ handled = 0
    /\ req = NoReq
    /\ resp = NoResp
    /\ log = <<>>
    /\ calls = <<>>
    /\ tasks = <<>>

\* get_azure_config() of the server `server`.
GetAzureConfig(server) ==
    /\ req = NoReq
    /\ req' = [server |-> server, body |-> JMethod(<<"get_azure_config">>)]
    /\ resp' = [kind |-> "config",
                outcome |-> IF server = "http_server" THEN hs_get_azure_config(env)
                            ELSE IF server = "mcp_server_http"
                            THEN mh_get_azure_config(env)
                            ELSE ms_get_azure_config(env)]
    /\ UNCHANGED <<env, files, audit, handled, log, calls, tasks>>

NextConfig ==
    \E server \in {"http_server", "mcp_server_http", "mcp_server"} :
        GetAzureConfig(server)

SpecConfig == InitConfig /\ [][NextConfig]_vars

\* Concurrent tools/call requests on mcp_server_http.py.  The event loop runs
\* one coroutine at a time and switches at an await: the POST to the upstream
\* service, aiofiles.open, the write, and the handler's read of the file.
MaxTasks == 2

TaskOutputPaths == {JNull, JStr("/out.png"), JStr("/other.png")}

\* The image the upstream service sends back to the call t.
ImageOf(t) == Bytes("generated_" \o ToString(t))

Task(op, output_path) ==
    [op |-> op, output_path |-> output_path, pc |-> "client.post",
     image |-> Missing, returned |-> Missing]

InitRace ==
    /\ env \in {EnvOf(GoodUrl, GoodKey, Deployment, Missing)}
    /\ files = [q \in {IMG_PATH} |-> Bytes("uploaded")]
    /\ audit = <<>>
    /\ handled = 0
    /\ req = NoReq
    /\ resp = NoResp
    /\ log = <<>>
    /\ calls = <<>>
    /\ tasks = <<>>

\* A tools/call arrives; its handler runs up to the await of client.post.
StartCall ==
    /\ Len(tasks) < MaxTasks
    /\ \E op \in {"generate_image", "edit_image"}, o \in TaskOutputPaths :
           tasks' = Append(tasks, Task(op, o))
    /\ UNCHANGED <<env, files, audit, handled, req, resp, log, calls>>

\* The upstream answers the call t; b64decode gives the image.  Without an
\* output_path the collaborator returns the bytes and the handler encodes them.
UpstreamAnswers(t) ==
    /\ tasks[t].pc = "client.post"
    /\ \/ tasks' = [tasks EXCEPT ![t].pc = "done"]
       \/ /\ Truthy(tasks[t].output_path)
          /\ tasks' = [tasks EXCEPT ![t].image = ImageOf(t), ![t].pc = "open_wb"]
       \/ /\ ~ Truthy(tasks[t].output_path)
          /\ tasks' = [tasks EXCEPT ![t].image = ImageOf(t),
                                    ![t].returned = b64encode(ImageOf(t)),
                                    ![t].pc = "done"]
    /\ UNCHANGED <<env, files, audit, handled, req, resp, log, calls>>

\* aiofiles.open(output_path, 'wb'): the file is created or truncated.
OpenOutput(t) ==
    /\ tasks[t].pc = "open_wb"
    /\ files' = WithFile(files, tasks[t].output_path, Bytes(""))
    /\ tasks' = [tasks EXCEPT ![t].pc = "write"]
    /\ UNCHANGED <<env, audit, handled, req, resp, log, calls>>

\* await f.write(image_bytes); the collaborator returns output_path.
WriteOutput(t) ==
    /\ tasks[t].pc = "write"
    /\ files' = WithFile(files, tasks[t].output_path, tasks[t].image)
    /\ tasks' = [tasks EXCEPT ![t].pc = "read_back"]
    /\ UNCHANGED <<env, audit, handled, req, resp, log, calls>>

\* The handler opens output_path and reads it back for the image block.
ReadBack(t) ==
    /\ tasks[t].pc = "read_back"
    /\ tasks' = [tasks EXCEPT ![t].returned = b64encode(files[tasks[t].output_path]),
                              ![t].pc = "done"]
    /\ UNCHANGED <<env, files, audit, handled, req, resp, log, calls>>

NextRace ==
    \/ StartCall
    \/ \E t \in DOMAIN tasks : UpstreamAnswers(t)
    \/ \E t \in DOMAIN tasks : OpenOutput(t)
    \/ \E t \in DOMAIN tasks : WriteOutput(t)
    \/ \E t \in DOMAIN tasks : ReadBack(t)

SpecRace == InitRace /\ [][NextRace]_vars

\* ------------------------------------------------- what a state tells us

Range(seq) == {seq[i] : i \in DOMAIN seq}

\* A request has been answered and its answer is on its way to the client.
Answered == req.server # "none"

\* The request went to one of the two HTTP entry points.
Http == req.server \in {"http_server", "mcp_server_http"}

\* The POST body was a JSON object.
Envelope == Http /\ IsMap(req.body)

\* The members of the request envelope; JNull where body.get gives None.
RequestId == IF Envelope THEN Get(req.body[2], "id", JNull) ELSE JNull

Method == IF Envelope THEN Get(req.body[2], "method", JNull) ELSE JNull

Params == IF Envelope THEN Get(req.body[2], "params", JMap(EmptyDict)) ELSE JNull

\* The request is a tools/call that reaches the tool router: over HTTP a
\* request (id not null) with mapping params, over stdio any call.
ToolCall ==
    \/ /\ Envelope
       /\ Method = JMethod(<<"tools/", "call">>)
       /\ RequestId # JNull
       /\ IsMap(Params)
    \/ req.server = "mcp_server" /\ IsMap(req.body)

ToolName ==
    IF ~ ToolCall THEN JNull
    ELSE IF Http THEN Get(Params[2], "name", JNull)
    ELSE Get(req.body[2], "name", JNull)

Arguments ==
    IF ~ ToolCall THEN JNull
    ELSE IF Http THEN Get(Params[2], "arguments", JMap(EmptyDict))
    ELSE Get(req.body[2], "arguments", JNull)

\* An argument of a tools/call with mapping arguments, Missing when absent.
Argument(key) == IF IsMap(Arguments) THEN Get(Arguments[2], key, Missing) ELSE Missing

\* The answer is a JSON-RPC body.
HasBody == resp.kind = "json"

\* The answer carries a result: a JSON-RPC result member, or over stdio the
\* value the handler returned to the SDK.
HasResult == resp.kind \in {"json", "tool_return"} /\ "result" \in DOMAIN resp.body

HasError == HasBody /\ "error" \in DOMAIN resp.body

\* The code of the JSON-RPC error; 0 when the answer is no error.
ErrorCode == IF HasError THEN resp.body.error[2].code ELSE 0

\* The content list of a tools/call result.
Content ==
    IF HasResult /\ "content" \in DOMAIN resp.body.result[2]
    THEN resp.body.result[2].content
    ELSE <<>>

\* The result is exactly one text block.
OneTextBlock == Len(Content) = 1 /\ Content[1].type = "text"

\* The wording of the one text block ("" when the content is not one).
Wording == IF OneTextBlock THEN Content[1].text[1] ELSE ""

ENGLISH_ONLY ==
    {"Prompt must be in English. Please use English to describe the image you want to generate.",
     "Prompt must be in English. Please use English to describe how you want to edit the image."}

SUPPORTED_SIZES_TEXT ==
    "Unsupported image size: {}. Supported sizes: 1024x1024, 1792x1024, 1024x1792"

\* ------------------------------------------------------------------- claims

\* C1: every JSON-RPC response body that http_server.handle_mcp_request or
\* mcp_server_http.handle_jsonrpc emits carries an id member equal to the
\* request's id: the same integer, or null when the request's id is null or
\* absent or the body could not be parsed.  (mcp_server_http answers a body
\* that is not JSON with a -32700 body that has no id member.)
C1_ResponseEchoesId ==
    (Http /\ HasBody) => ("id" \in DOMAIN resp.body /\ resp.body.id = RequestId)

\* C2: a POST body that is not JSON is answered with error -32700 and id
\* null, and nothing else happens: no tool handler runs, no audit record is
\* written, no collaborator call is made.
C2_ParseErrorAnswer ==
    (Http /\ req.body = Malformed) =>
        /\ ErrorCode = PARSE_ERROR
        /\ "id" \in DOMAIN resp.body
        /\ resp.body.id = JNull
        /\ log = <<>>
        /\ calls = <<>>

\* C3: every request (id not null) whose method is none of initialize,
\* tools/list, tools/call, a missing method included, is answered with
\* error -32601 and never with a result.
C3_UnknownMethod ==
    (Envelope /\ RequestId # JNull
        /\ Method \notin {JMethod(<<"initialize">>), JMethod(<<"tools/", "list">>),
                          JMethod(<<"tools/", "call">>)})
    => (HasBody /\ ErrorCode = METHOD_NOT_FOUND /\ ~ HasResult
        /\ log = <<>> /\ calls = <<>>)

\* C3 happens: a request without a method member, and one for a method the
\* server does not know, each answered with -32601 under the request's id.
C3_witness ==
    /\ req.server = "mcp_server_http"
    /\ RequestId = JInt(7)
    /\ Method = JNull
    /\ ErrorCode = METHOD_NOT_FOUND
    /\ resp.body.id = JInt(7)

\* C4: on every entry point a tools/call naming a tool other than
\* generate_image and edit_image is answered with JSON-RPC error -32602, not
\* with a result; no audit session is opened and no collaborator call made.
C4_UnknownToolIsInvalidParams ==
    (ToolCall /\ ToolName \notin {JStr("generate_image"), JStr("edit_image")})
    => (ErrorCode = INVALID_PARAMS /\ ~ HasResult /\ log = <<>> /\ calls = <<>>)

\* C5: a message whose id is absent or null and whose method starts with
\* notifications/ gets no JSON-RPC body: both HTTP servers answer it with
\* status 204 and an empty body.
C5_NotificationGets204 ==
    (Envelope /\ RequestId = JNull /\ Method[1] = "segs"
        /\ Head(Method[2]) = "notifications/")
    => (resp.kind = "empty" /\ resp.status = 204)

\* C6: an exception that escapes routing (a JSON body that is no object,
\* params that are no mapping, a failure raised out of a tool handler) is
\* caught at the outermost boundary and answered with a -32603 body carrying
\* the exception's message; the HTTP handler itself never raises.
C6_InternalErrorBoundary ==
    Http =>
        /\ resp.kind # "raised"
        /\ ( \/ (~ IsMap(req.body) /\ req.body # Malformed)
             \/ (Envelope /\ RequestId # JNull
                 /\ Method = JMethod(<<"tools/", "call">>) /\ ~ IsMap(Params))
             \/ "create_audit_session:failed" \in Range(log) )
           => ErrorCode = INTERNAL_ERROR

\* The prompt argument is a str with a character of the four ranges.
NonEnglishPrompt ==
    /\ Argument("prompt")[1] = "txt"
    /\ \E i \in DOMAIN Argument("prompt")[2] : InCJKRanges(Argument("prompt")[2][i])

ImageTool == ToolCall /\ ToolName \in {JStr("generate_image"), JStr("edit_image")}

\* C7: a generate_image or edit_image call whose prompt has a CJK ideograph,
\* Hiragana, Katakana or Hangul character returns a result whose content is
\* exactly one text block stating the English-only requirement, and the
\* collaborator is not invoked, whatever the other arguments and the
\* configuration are.
C7_NonEnglishPromptRefused ==
    (ImageTool /\ NonEnglishPrompt)
    => (HasResult /\ Wording \in ENGLISH_ONLY /\ calls = <<>>)

\* The size generate_image works with: the argument, or the configured default.
EffectiveSize ==
    IF Argument("size") # Missing THEN Argument("size") ELSE default_image_size(env)

\* C8: generate_image accepts a size exactly when it is 1024x1024, 1792x1024
\* or 1024x1792: any other effective size (explicit, empty, null, or an
\* invalid configured default) gets a single text block naming the supported
\* sizes and no collaborator call; none of the three values gets that block.
C8_GenerateSizeEnum ==
    (ToolCall /\ ToolName = JStr("generate_image") /\ IsMap(Arguments))
    => IF validate_image_size(EffectiveSize)
       THEN Wording # SUPPORTED_SIZES_TEXT
       ELSE HasResult /\ Wording = SUPPORTED_SIZES_TEXT /\ calls = <<>>

\* C9: edit_image validates its optional size override before it invokes the
\* collaborator: a call whose size is present and not one of the three
\* values is refused with a text block, and the collaborator is never
\* invoked with that size.
C9_EditSizeValidated ==
    (ToolCall /\ ToolName = JStr("edit_image") /\ Argument("size") # Missing
        /\ ~ validate_image_size(Argument("size")))
    => (HasResult /\ OneTextBlock /\ calls = <<>>)

\* The image source of an edit_image call: image_data_base64 on
\* mcp_server_http, image_path on the other two entry points.
ImageSource ==
    IF req.server = "mcp_server_http" THEN Argument("image_data_base64")
    ELSE Argument("image_path")

NoImageSource ==
    ImageSource \in {Missing, JNull, JStr(""), JB64(<<>>)}

\* C10: edit_image never invokes the collaborator when its image source is
\* missing, empty, or (stdio) names a file that does not exist: the call
\* returns a single text block, and for a missing or empty source the
\* refusal comes before any file-existence test, file copy or network call.
C10_EditNeedsImageSource ==
    (ToolCall /\ ToolName = JStr("edit_image") /\ IsMap(Arguments))
    => /\ (NoImageSource \/ ImageSource = NO_SUCH_PATH)
              => (HasResult /\ OneTextBlock /\ calls = <<>>)
       /\ NoImageSource
              => Range(log) \cap {"os.path.exists", "copy_input", "copy_input:failed",
                                  "client.post", "read_input"} = {}


\* get_azure_config of the entry point that got the request succeeds.
ConfigOk ==
    IF req.server = "http_server" THEN hs_get_azure_config(env).ok
    ELSE IF req.server = "mcp_server_http" THEN mh_get_azure_config(env).ok
    ELSE ms_get_azure_config(env).ok

\* No operation of the audit recorder failed while the request was answered.
AuditWorked ==
    Range(log) \cap {"create_audit_session:failed", "log_audit_request:failed",
                     "copy_input:failed", "log_audit_response:failed"} = {}

\* C11: a generate_image or edit_image call made while the upstream
\* configuration is missing or invalid returns a successful result whose
\* content is a single explanatory text block; no collaborator is
\* constructed or invoked.
C11_ConfigErrorIsTextBlock ==
    (ImageTool /\ ~ ConfigOk)
    => (HasResult /\ OneTextBlock /\ calls = <<>>
        /\ "AzureImageGenerator" \notin Range(log))


\* The collaborator invocation of this call raised.
CollaboratorFailed == "collaborator:raise" \in Range(log)

\* How often e occurs in the log of this call.
Count(e) == Cardinality({i \in DOMAIN log : log[i] = e})

FAILURE_TEXT == {"Error generating image: {}", "Error editing image: {}"}

\* C12: the collaborator is invoked at most once per tools/call; when that
\* invocation fails (error status, timeout, empty or malformed response)
\* the call is not retried and returns a successful result whose content is
\* exactly one text block describing the failure.
C12_NoRetry ==
    ImageTool =>
        /\ Len(calls) <= 1
        /\ Count("client.post") <= 1
        /\ CollaboratorFailed
               => (HasResult /\ OneTextBlock /\ Wording \in FAILURE_TEXT)


\* The answer carries a content list (the return value of a tool handler).
HasContent == HasResult /\ "content" \in DOMAIN resp.body.result[2]

ImageBlocks == {i \in DOMAIN Content : Content[i].type = "image"}

\* C13: every content list a tool handler returns is non-empty and starts
\* with a text block; an image block appears at most once, only after the
\* text block, and only when the collaborator invocation of the call
\* succeeded.
C13_ContentShape ==
    HasContent =>
        /\ Len(Content) >= 1
        /\ Content[1].type = "text"
        /\ Cardinality(ImageBlocks) <= 1
        /\ \A i \in ImageBlocks : i > 1
        /\ ImageBlocks # {} => (Len(calls) = 1 /\ ~ CollaboratorFailed)

\* C13 happens: a successful call answered with a text block followed by
\* the image block.
C13_witness ==
    /\ ImageTool
    /\ Len(Content) = 2
    /\ Content[1].type = "text"
    /\ Content[2] = ImageBlock(b64encode(API_IMAGE))
    /\ Len(calls) = 1


\* The call invoked the collaborator and the invocation succeeded.
CollaboratorSucceeded == Len(calls) = 1 /\ ~ CollaboratorFailed

\* C14: over HTTP a successful generate_image or edit_image call returns
\* the image bytes to the client as an image block (base64, image/png)
\* after the text block, whether or not output_path was supplied; this
\* holds for http_server.py and for mcp_server_http.py.
C14_HttpReturnsImage ==
    (Http /\ ImageTool /\ CollaboratorSucceeded)
    => /\ Len(Content) = 2
       /\ Content[1].type = "text"
       /\ Content[2] = ImageBlock(b64encode(API_IMAGE))


\* The image_data_base64 value is `data:<mime>;base64,<payload>`.
DATA_URL_PREFIX == <<"data:", "image/png;base64", ",">>

IsDataUrlForm(v) ==
    /\ v # Missing
    /\ v[1] = "b64str"
    /\ Len(v[2]) >= Len(DATA_URL_PREFIX)
    /\ SubSeq(v[2], 1, Len(DATA_URL_PREFIX)) = DATA_URL_PREFIX

PayloadOf(v) == JB64(SubSeq(v[2], Len(DATA_URL_PREFIX) + 1, Len(v[2])))

\* The tools/call envelope `body` with the raw payload in place of the data URL.
WithRawPayload(body) ==
    LET params == body[2].params[2]
        args == params.arguments[2]
        raw == [args EXCEPT !["image_data_base64"] = PayloadOf(@)]
    IN  JMap([body[2] EXCEPT
                !["params"] = JMap([params EXCEPT !["arguments"] = JMap(raw)])])

\* What the HTTP entry point `server` does with `body` in the present state.
HttpOutcome(server, body, w) ==
    IF server = "http_server"
    THEN hs_handle_mcp_request(body, env, files, audit, w)
    ELSE mh_handle_jsonrpc(body, env, files, audit, w)

EditWithDataUrl ==
    /\ Http
    /\ ToolCall
    /\ ToolName = JStr("edit_image")
    /\ IsDataUrlForm(Argument("image_data_base64"))

\* C15: an HTTP edit_image call whose image_data_base64 is
\* `data:<mime>;base64,<payload>` is answered exactly as the same call with the
\* raw `<payload>` would be: same response, same collaborator invocation, same
\* files, whatever the upstream does.
C15_DataUrlLikeRaw ==
    [][EditWithDataUrl' =>
         \A w \in Worlds :
             HttpOutcome(req'.server, req'.body, w)
                 = HttpOutcome(req'.server, WithRawPayload(req'.body), w)]_vars

\* The same for payloads that are not empty.
C15_DataUrlLikeRaw_NonEmpty ==
    [][(EditWithDataUrl' /\ PayloadOf(Argument("image_data_base64"))' # JB64(<<>>)) =>
         \A w \in Worlds :
             HttpOutcome(req'.server, req'.body, w)
                 = HttpOutcome(req'.server, WithRawPayload(req'.body), w)]_vars

\* The answer is a tools/list result; Tools is its list of tools.
ToolsListed == HasResult /\ "tools" \in DOMAIN resp.body.result[2]

Tools == IF ToolsListed THEN resp.body.result[2].tools ELSE <<>>

\* The steps of a handler that touch the file the caller's image_path names.
CALLER_FILE_EVENTS == {"os.path.exists", "copy_input", "copy_input:failed"}

\* C16: over HTTP, edit_image never tests, copies or hands to the collaborator
\* a server-side file named by the caller's image_path, and the edit_image
\* schema of tools/list requires image_data_base64 and has no image_path
\* property.
C16_HttpEditTakesNoPath ==
    Http =>
        /\ (ToolCall /\ ToolName = JStr("edit_image")) =>
              /\ Range(log) \cap CALLER_FILE_EVENTS = {}
              /\ \A i \in DOMAIN calls :
                     calls[i].image_path # Argument("image_path")
        /\ ToolsListed =>
              /\ Len(Tools) = 2
              /\ "image_data_base64" \in Range(Tools[2].required)
              /\ "image_path" \notin Tools[2].properties

\* The argument that names the image to edit, on either transport.
IMAGE_SOURCE_KEYS == {"image_path", "image_data_base64"}

\* C17: on every transport tools/list returns exactly generate_image and
\* edit_image, in that order; generate_image requires only prompt, edit_image
\* requires only its image source and prompt.
C17_ToolsListSchema ==
    ToolsListed =>
        /\ Len(Tools) = 2
        /\ Tools[1].name = "generate_image"
        /\ Tools[2].name = "edit_image"
        /\ Range(Tools[1].required) = {"prompt"}
        /\ \E k \in IMAGE_SOURCE_KEYS : Range(Tools[2].required) = {k, "prompt"}

\* The names and their order alone.
C17_ToolNamesInOrder ==
    ToolsListed =>
        /\ Len(Tools) = 2
        /\ Tools[1].name = "generate_image"
        /\ Tools[2].name = "edit_image"

Servers == {"http_server", "mcp_server_http", "mcp_server"}

\* Every tools list a server could give in some environment.
ToolLists ==
    UNION {{hs_tools(e), mh_get_tools_list(e), ms_handle_list_tools(e)} :
              e \in Environments}

ListedBy(s) == req.server = s /\ ToolsListed

\* C18: once an entry point has answered tools/list with some list of tools,
\* every later tools/list on it gets the identical list, whatever requests were
\* answered in between.
C18_ToolsListStable ==
    \A s \in Servers : \A t \in ToolLists :
        []((ListedBy(s) /\ Tools = t) => [](ListedBy(s) => Tools = t))

\* A tools/list answered as the third request, after a tools/call that left an
\* audit session and an output file behind.
C18_witness ==
    /\ ListedBy("http_server")
    /\ handled = 3
    /\ audit # <<>>
    /\ JStr("/out.png") \in DOMAIN files

AUDIT_RECORD == {"request.json", "response.json"}

\* The call just answered got a session directory of its own, named after its
\* tool, that holds both request.json and response.json.
LeavesAuditRecord ==
    /\ Len(audit') = Len(audit) + 1
    /\ audit'[Len(audit')].op = ToolName'[2]
    /\ AUDIT_RECORD \subseteq audit'[Len(audit')].files

\* C19: on every transport, every tools/call of generate_image or edit_image,
\* on success and on every failure path, leaves a session directory with both
\* request.json and response.json.
C19_EveryCallAudited == [][ImageTool' => LeavesAuditRecord]_vars

\* The same on http_server.py alone, the one entry point with a recorder.
C19_HsAudited ==
    [][(ImageTool' /\ req'.server = "http_server") => LeavesAuditRecord]_vars

\* C20: no two calls are handed the same audit session directory.
C20_DistinctSessionDirs ==
    \A i, j \in DOMAIN audit : i # j => audit[i].dir # audit[j].dir

\* The world w with an audit recorder whose file operations all succeed.
RecorderWorking(w) == [w EXCEPT !.audit = "none"]

\* C21: on http_server.py a failure of an audit operation never changes what
\* the caller gets nor whether the collaborator is invoked: the call is
\* answered, and the collaborator called, as with a working recorder.
C21_RecorderFailureIsHarmless ==
    [][(ImageTool' /\ req'.server = "http_server") =>
         \A w \in Stamped(Worlds) :
             LET got == HttpOutcome(req'.server, req'.body, w)
                 want == HttpOutcome(req'.server, req'.body, RecorderWorking(w))
             IN  got.resp = want.resp /\ got.calls = want.calls]_vars

\* Every a in the log of the call comes before every b.
Before(a, b) ==
    \A i, j \in DOMAIN log : (log[i] = a /\ log[j] = b) => i < j

GenerateCall == ToolCall /\ ToolName = JStr("generate_image")

\* The call was refused by the validation of its prompt or its size.
ValidationFailed == Wording \in ENGLISH_ONLY \cup {SUPPORTED_SIZES_TEXT}

\* The steps of the order alone: session, request, collaborator, response.
C22_StepsInOrder ==
    GenerateCall =>
        /\ Before("create_audit_session", "log_audit_request")
        /\ Before("log_audit_request", "AzureImageGenerator")
        /\ Before("AzureImageGenerator", "client.post")
        /\ Before("client.post", "log_audit_response")

\* C22: generate_image validates prompt and size, then opens the audit
\* session, records the request, invokes the collaborator and records the
\* response, in that order: a call refused by validation has opened no session
\* and recorded no request.
C22_GenerateOrder ==
    /\ C22_StepsInOrder
    /\ (GenerateCall /\ ValidationFailed) =>
           Range(log) \cap {"create_audit_session", "log_audit_request"} = {}

HsGenerateCall == req.server = "http_server" /\ GenerateCall

\* The session directory handed to the call just answered holds `name`.
SessionHolds(name) == audit # <<>> /\ name \in audit[Len(audit)].files

\* C22 as the code has it: http_server.handle_generate_image opens the audit
\* session and records the request first, then gets the configuration and
\* validates prompt and size, then invokes the collaborator and records the
\* response; a call refused by validation has a session with its request.json.
C22_SessionBeforeValidation ==
    HsGenerateCall =>
        /\ C22_StepsInOrder
        /\ Before("log_audit_request", "get_azure_config")
        /\ ValidationFailed =>
              /\ "create_audit_session" \in Range(log)
              /\ "log_audit_request" \in Range(log)
              /\ SessionHolds("request.json")

C22_witness ==
    /\ HsGenerateCall
    /\ ValidationFailed
    /\ SessionHolds("request.json")
    /\ SessionHolds("response.json")

\* The answer is a protocol-level failure: parse error or method not found.
ProtocolFailure == HasError /\ ErrorCode \in {PARSE_ERROR, METHOD_NOT_FOUND}

\* C23: on both HTTP servers a request answered with a result gets status 200
\* with a JSON body, and one answered with a parse error or a method-not-found
\* error gets a status other than 200 with the JSON-RPC error as its body.
C23_HttpStatus ==
    Http =>
        /\ HasResult => (HasBody /\ resp.status = 200)
        /\ ProtocolFailure => (HasBody /\ resp.status # 200)

\* The characters of the CJK Unified Ideographs, Hiragana, Katakana and Hangul
\* Syllables blocks.
CJK_CHARACTERS ==
    (19968..40959) \cup (12352..12447) \cup (12448..12543) \cup (44032..55215)

HasCJK(cps) == \E i \in DOMAIN cps : cps[i] \in CJK_CHARACTERS

Judged == req.server = "is_english_text" /\ resp.kind = "verdict"

\* C24: is_english_text(text) is false exactly when the text has a character
\* of the CJK Unified Ideographs, Hiragana, Katakana or Hangul Syllables
\* ranges, and the three copies of the function agree.
C24_IsEnglishText ==
    Judged =>
        /\ resp.http_server = ~ HasCJK(req.body[2])
        /\ resp.mcp_server_http = resp.http_server
        /\ resp.mcp_server = resp.http_server

\* Latin text mixed with the last Hangul syllable is judged not English.
C24_witness ==
    /\ Judged
    /\ req.body = JTxt(<<97, HANGUL_HI>>)
    /\ ~ resp.http_server

\* get_azure_config has returned or raised.
Configured == resp.kind = "config"

\* The variable is set and has more than white space; Trimmed is its value
\* without the white space around it.
IsSet(name) ==
    /\ name \in DOMAIN env
    /\ \E i \in DOMAIN env[name] : env[name][i] \notin {" ", "\t"}

Trimmed(name) == strip_ch(env[name])

HasPrefix(s, p) == Len(s) >= Len(p) /\ \A i \in DOMAIN p : s[i] = p[i]

ConfigConditions ==
    /\ IsSet("AZURE_BASE_URL")
    /\ IsSet("AZURE_API_KEY")
    /\ IsSet("AZURE_DEPLOYMENT_NAME")
    /\ \/ HasPrefix(Trimmed("AZURE_BASE_URL"), HTTP_PREFIX)
       \/ HasPrefix(Trimmed("AZURE_BASE_URL"), HTTPS_PREFIX)
    /\ Len(Trimmed("AZURE_API_KEY")) >= 10

\* C25: get_azure_config returns a configuration exactly when the three
\* required variables are set and non-blank, the base URL starts with http://
\* or https:// and the API key has at least 10 characters; otherwise it raises.
\* A returned configuration has non-empty base_url, api_key, deployment_name
\* and model.
C25_ConfigOnlyWhenValid ==
    Configured =>
        /\ resp.outcome.ok <=> ConfigConditions
        /\ resp.outcome.ok =>
              \A k \in {"base_url", "api_key", "deployment_name", "model"} :
                  /\ k \in DOMAIN resp.outcome.config
                  /\ resp.outcome.config[k] # <<>>
        /\ ~ resp.outcome.ok => resp.outcome.exc.type \in {"ValueError", "Exception"}

\* A configuration returned from padded values, with the default model.
C25_witness ==
    /\ Configured
    /\ resp.outcome.ok
    /\ env["AZURE_BASE_URL"] = <<" ">> \o GoodUrl \o <<" ">>
    /\ "AZURE_MODEL" \notin DOMAIN env
    /\ resp.outcome.config.base_url = GoodUrl
    /\ resp.outcome.config.model = DEFAULT_MODEL

\* The call t has returned an image block after saving to its output_path.
ReturnedSavedImage(t) ==
    /\ tasks[t].pc = "done"
    /\ Truthy(tasks[t].output_path)
    /\ tasks[t].returned # Missing

\* C26: in mcp_server_http.py the image block of a call that supplied
\* output_path encodes the bytes of that call's own collaborator response,
\* also when another call with the same output_path runs concurrently.
C26_OwnImageReturned ==
    \A t \in DOMAIN tasks :
        ReturnedSavedImage(t) => tasks[t].returned = b64encode(tasks[t].image)

\* The same for calls whose output_path no other call in flight has used.
C26_OwnImageWhenPathUnshared ==
    \A t \in DOMAIN tasks :
        (ReturnedSavedImage(t)
           /\ \A u \in DOMAIN tasks \ {t} :
                  tasks[u].output_path # tasks[t].output_path)
        => tasks[t].returned = b64encode(tasks[t].image)

HsImageCall == req.server = "http_server" /\ ImageTool

\* The collaborator was constructed and one of its methods awaited.
CollaboratorInvoked == "AzureImageGenerator" \in Range(log)

\* The two orderings alone: request.json before the collaborator, response.json
\* after it.
C27_RecordsAroundCollaborator ==
    HsImageCall =>
        /\ CollaboratorInvoked =>
              ("log_audit_request" \in Range(log) /\ SessionHolds("request.json"))
        /\ Before("log_audit_request", "AzureImageGenerator")
        /\ Before("AzureImageGenerator", "log_audit_response")
        /\ Before("client.post", "log_audit_response")
        /\ Before("collaborator:raise", "log_audit_response")

\* C27: in http_server.py request.json is written before the collaborator is
\* invoked, response.json is written only after the collaborator call has
\* returned or raised, and response.json is never written for a session whose
\* request.json was not written.
C27_AuditOrder ==
    /\ C27_RecordsAroundCollaborator
    /\ (HsImageCall /\ SessionHolds("response.json")) => SessionHolds("request.json")

EditCall == ToolCall /\ ToolName = JStr("edit_image")

\* The caller's prompt, the empty text when the call has none.
GivenPrompt ==
    IF Argument("prompt") = Missing THEN JTxt(<<>>) ELSE Argument("prompt")

\* " (and all other elements exactly the same)"
PRESERVE_SUFFIX ==
    <<32, 40, 97, 110, 100, 32, 97, 108, 108, 32, 111, 116, 104, 101, 114, 32,
      101, 108, 101, 109, 101, 110, 116, 115, 32, 101, 120, 97, 99, 116, 108,
      121, 32, 116, 104, 101, 32, 115, 97, 109, 101, 41>>

\* C28: on all three servers edit_image passes to the collaborator the
\* caller's prompt followed, once, by " (and all other elements exactly the
\* same)"; an absent prompt counts as the empty text; the prompt passed has
\* gone through the language check.
C28_EditPromptSuffixed ==
    (EditCall /\ calls # <<>>) =>
        /\ Len(calls) = 1
        /\ GivenPrompt[1] = "txt"
        /\ calls[1].prompt = JTxt(GivenPrompt[2] \o PRESERVE_SUFFIX)
        /\ ~ HasCJK(calls[1].prompt[2])

\* A call without a prompt: the collaborator gets the suffix alone.
C28_witness ==
    /\ EditCall
    /\ req.server = "mcp_server"
    /\ Argument("prompt") = Missing
    /\ Len(calls) = 1
    /\ calls[1].prompt = JTxt(PRESERVE_SUFFIX)

\* The files of a server that has answered nothing yet.
FreshFiles == [q \in {IMG_PATH} |-> Bytes("uploaded")]

\* What the server `server`, started in environment e and having answered
\* nothing yet, does with the request `body` in world w.
FreshOutcome(server, body, e, w) ==
    IF server = "http_server"
    THEN hs_handle_mcp_request(body, e, FreshFiles, <<>>, w)
    ELSE IF server = "mcp_server_http"
    THEN mh_handle_jsonrpc(body, e, FreshFiles, <<>>, w)
    ELSE IF body = JMethod(<<"tools/", "list">>)
    THEN Outcome(ToolReturn(JMap([tools |-> ms_handle_list_tools(e)])),
                 <<>>, <<>>, FreshFiles, <<>>)
    ELSE LET h == ms_handle_call_tool(Get(body[2], "name", JNull),
                                      Get(body[2], "arguments", JNull),
                                      e, FreshFiles, <<>>, w)
         IN  Outcome(ToolReturn(JMap([content |-> h.content])),
                     h.log, h.calls, h.files, h.audit)

\* The request was answered without the collaborator being reached, and a
\* server started in e that has answered nothing yet could give the same
\* answer to it.
AnsweredAsFresh(e) ==
    (Answered /\ calls = <<>>) =>
        \E w \in FewWorlds :
            LET fresh == FreshOutcome(req.server, req.body, e, w)
            IN  fresh.resp = resp /\ fresh.calls = <<>>

\* An initialize request that carries an id is answered with a result whose
\* protocolVersion is 2024-11-05, first request or not.
InitializeAnswered ==
    (Answered /\ Envelope /\ Method = JMethod(<<"initialize">>)
              /\ RequestId # JNull) =>
        /\ HasResult
        /\ resp.body.result[2].protocolVersion = "2024-11-05"

IdlessOnMh ==
    /\ req.server = "mcp_server_http"
    /\ IsMap(req.body)
    /\ Get(req.body[2], "id", JNull) = JNull

\* C30: in mcp_server_http.handle_jsonrpc a message whose id is absent or null
\* runs no tool handler, whatever its method: answering it calls the
\* collaborator never, logs no tool step, and leaves the files, the audit
\* records and the environment as they were.
C30_IdlessRunsNoTool ==
    [][IdlessOnMh' =>
          /\ calls' = <<>>
          /\ log' = <<>>
          /\ UNCHANGED <<env, files, audit>>]_vars

C30_witness ==
    /\ IdlessOnMh
    /\ Get(req.body[2], "method", JNull) = JMethod(<<"tools/", "call">>)
    /\ Get(req.body[2], "params", JNull) =
           JMap(Obj([name |-> JStr("generate_image"),
                     arguments |-> JMap(Obj([prompt |-> PromptCat,
                                             size |-> JStr("1024x1024"),
                                             image_path |-> IMG_PATH,
                                             image_data_base64 |-> RawB64]))]))
    /\ resp = EmptyResponse(204)
    /\ calls = <<>>

\* The files of the session directory of the call just answered.
SessionFiles == IF audit = <<>> THEN {} ELSE audit[Len(audit)].files

\* The call named an output_path that Python finds true.
WithOutputPath ==
    Argument("output_path") # Missing /\ Truthy(Argument("output_path"))

\* What the session directory holds of the image, by the call's outcome.
ImageArtifactsMatchOutcome ==
    /\ "result.png" \in SessionFiles <=>
           (CollaboratorSucceeded /\ ~ WithOutputPath)
    /\ "output" \in SessionFiles <=>
           (CollaboratorSucceeded /\ WithOutputPath)

\* C31: after a call of http_server.py the session directory holds result.png
\* exactly when the collaborator succeeded and returned raw bytes, holds the
\* output_<name> copy exactly when it succeeded and wrote to output_path, and
\* holds neither when the call was refused or the collaborator failed.
C31_SessionArtifacts ==
    (HsImageCall /\ audit # <<>>) => ImageArtifactsMatchOutcome

\* ------------------------------------ mcp_server_http.handle_edit_image, stepwise

\* One run of mcp_server_http.handle_edit_image at a time, step by step from
\* the point where its validations have passed, MaxEdits of them in a row.
MaxEdits == 2

TempImageData == {RawB64, DataUrl, EmptyDataUrl, JB64(<<"abcde">>)}

\* temp_input_path is None (JNull) until NamedTemporaryFile has given a name.
EditRun(image_data_base64, size, output_path) ==
    [image_data_base64 |-> image_data_base64, size |-> size,
     output_path |-> output_path, pc |-> "b64decode",
     image_bytes |-> Missing, temp_input_path |-> JNull, way_out |-> "none"]

InitTemp ==
    /\ env \in {EnvOf(GoodUrl, GoodKey, Deployment, Missing)}
    /\ files = [q \in {IMG_PATH} |-> Bytes("uploaded")]
    /\ audit = <<>>
    /\ handled = 0
    /\ req = NoReq
    /\ resp = NoResp
    /\ log = <<>>
    /\ calls = <<>>
    /\ tasks = <<>>

\* The validations have passed; temp_input_path = None and the try begins.
StartEdit ==
    /\ tasks = <<>>
    /\ handled < MaxEdits
    /\ \E d \in TempImageData, s \in {JNull, JStr("1792x1024")},
          o \in {JNull, JStr("/out.png")} :
           tasks' = <<EditRun(d, s, o)>>
    /\ UNCHANGED <<env, files, audit, handled, req, resp, log, calls>>

\* strip, the data URL split and base64.b64decode; a failure is caught by the
\* inner except clause, which returns from inside the try.
DecodeImage ==
    /\ tasks # <<>> /\ tasks[1].pc = "b64decode"
    /\ LET stripped_data == strip_tok(tasks[1].image_data_base64[2])
           is_data_url == stripped_data # <<>> /\ Head(stripped_data) = "data:"
           base64_data == IF is_data_url THEN after_first_comma(stripped_data)
                          ELSE stripped_data
           image_bytes == b64decode(base64_data)
       IN  IF image_bytes = Missing
           THEN tasks' = [tasks EXCEPT ![1].pc = "finally",
                                       ![1].way_out = "decode_error"]
           ELSE tasks' = [tasks EXCEPT ![1].pc = "NamedTemporaryFile",
                                       ![1].image_bytes = image_bytes]
    /\ UNCHANGED <<env, files, audit, handled, req, resp, log, calls>>

\* tempfile.NamedTemporaryFile(delete=False) creates the file and names it;
\* then temp_file.write(image_bytes), which the disk may refuse.
WriteTempFile ==
    /\ tasks # <<>> /\ tasks[1].pc = "NamedTemporaryFile"
    /\ \/ /\ files' = WithFile(files, TEMP_PATH, tasks[1].image_bytes)
          /\ tasks' = [tasks EXCEPT ![1].temp_input_path = TEMP_PATH,
                                    ![1].pc = "edit_image"]
       \/ /\ files' = WithFile(files, TEMP_PATH, Bytes(""))
          /\ tasks' = [tasks EXCEPT ![1].temp_input_path = TEMP_PATH,
                                    ![1].pc = "finally",
                                    ![1].way_out = "decode_error"]
    /\ UNCHANGED <<env, audit, handled, req, resp, log, calls>>

\* async with AzureImageGenerator(...): generator.edit_image(...).
EditUpstream ==
    /\ tasks # <<>> /\ tasks[1].pc = "edit_image"
    /\ \E outcome \in CollabOutcomes, dims \in BOOLEAN :
         LET r == edit_image(tasks[1].temp_input_path, JTxt(EDIT_SUFFIX),
                             tasks[1].size, tasks[1].output_path, files,
                             outcome, dims)
         IN  /\ files' = r.files
             /\ IF ~ r.ok
                THEN tasks' = [tasks EXCEPT ![1].pc = "finally",
                                            ![1].way_out = "collaborator_error"]
                ELSE IF Truthy(tasks[1].output_path)
                THEN tasks' = [tasks EXCEPT ![1].pc = "read_back"]
                ELSE tasks' = [tasks EXCEPT ![1].pc = "finally",
                                            ![1].way_out = "image"]
    /\ UNCHANGED <<env, audit, handled, req, resp, log, calls>>

\* A handler whose failed read of output_path goes straight to its caller.
ReadOutputBack_leaving_at_once ==
    /\ tasks # <<>> /\ tasks[1].pc = "read_back"
    /\ \/ /\ tasks' = [tasks EXCEPT ![1].pc = "finally", ![1].way_out = "image"]
          /\ UNCHANGED files
       \/ /\ files' = WithoutFile(files, tasks[1].output_path)
          /\ tasks' = [tasks EXCEPT ![1].pc = "returned",
                                    ![1].way_out = "read_back_error"]
    /\ UNCHANGED <<env, audit, handled, req, resp, log, calls>>

\* aiofiles.open(output_path, 'rb') and read: the file is there, or something
\* else has removed it meanwhile and the open raises.
ReadOutputBack ==
    /\ tasks # <<>> /\ tasks[1].pc = "read_back"
    /\ \/ /\ tasks' = [tasks EXCEPT ![1].pc = "finally", ![1].way_out = "image"]
          /\ UNCHANGED files
       \/ /\ files' = WithoutFile(files, tasks[1].output_path)
          /\ tasks' = [tasks EXCEPT ![1].pc = "finally",
                                    ![1].way_out = "read_back_error"]
    /\ UNCHANGED <<env, audit, handled, req, resp, log, calls>>

\* The finally clause: os.unlink(temp_input_path) when a name was given and
\* the file exists; then the return, or the outer except clause's text block.
CleanUp ==
    /\ tasks # <<>> /\ tasks[1].pc = "finally"
    /\ files' = IF tasks[1].temp_input_path # JNull
                   /\ exists(files, tasks[1].temp_input_path)
                THEN WithoutFile(files, tasks[1].temp_input_path)
                ELSE files
    /\ tasks' = [tasks EXCEPT ![1].pc = "returned"]
    /\ UNCHANGED <<env, audit, handled, req, resp, log, calls>>

\* The caller has the handler's result; the next call may begin.
HandlerReturns ==
    /\ tasks # <<>> /\ tasks[1].pc = "returned"
    /\ tasks' = <<>>
    /\ handled' = handled + 1
    /\ UNCHANGED <<env, files, audit, req, resp, log, calls>>

NextTemp ==
    \/ StartEdit
    \/ DecodeImage
    \/ WriteTempFile
    \/ EditUpstream
    \/ ReadOutputBack
    \/ CleanUp
    \/ HandlerReturns

SpecTemp == InitTemp /\ [][NextTemp]_vars

\* The run of handle_edit_image in progress has returned to its caller.
EditReturned == tasks # <<>> /\ tasks[1].pc = "returned"

GeneratorMade == "AzureImageGenerator" \in Range(log)

\* The checks the handler of the call makes before it constructs a generator.
ValidationPassed ==
    /\ ~ NonEnglishPrompt
    /\ GenerateCall => validate_image_size(EffectiveSize)
    /\ EditCall => (~ NoImageSource /\ ImageSource # NO_SUCH_PATH)

\* C33: a tool handler that constructed an AzureImageGenerator has closed the
\* generator's HTTP client by the time it returns or raises - after a
\* success, a collaborator error, or an error while the result was recorded -
\* and it constructs none, and at most one, when the configuration could not
\* be loaded or a validation failed.
C33_GeneratorClosed ==
    ImageTool =>
        /\ Count("AzureImageGenerator") <= 1
        /\ Count("client.aclose") = Count("AzureImageGenerator")
        /\ Before("AzureImageGenerator", "client.aclose")
        /\ GeneratorMade => (ConfigOk /\ ValidationPassed)

C33_witness ==
    /\ HsImageCall
    /\ GeneratorMade
    /\ CollaboratorSucceeded
    /\ "log_audit_response:failed" \in Range(log)
    /\ log[Len(log)] = "log_audit_response"
    /\ Count("client.aclose") = 1

\* The wordings of the text block of a call whose image was saved to a path.
SAVED_TO ==
    {"Image successfully generated and saved to: {}",
     "Image successfully edited and saved to: {}",
     "Image successfully generated. Saved to server at: {}",
     "Image successfully edited. Saved to server at: {}"}

\* The handler took the branch that treats the collaborator's result as a path.
TookPathBranch ==
    Content # <<>> /\ Content[1].type = "text" /\ Content[1].text[1] \in SAVED_TO

\* The handler took the branch that base64-encodes the collaborator's result.
TookBytesBranch == ImageBlocks # {} /\ ~ TookPathBranch

\* C34: handler and AzureImageGenerator decide on the truthiness of the same
\* output_path.  After a successful collaborator call the collaborator has
\* written a file exactly when output_path is non-empty; the handler encodes
\* the result only when it is the image's bytes and names it as a path only
\* when it is the output_path; absent, null and empty output_path give an
\* image block, a non-empty one gives the path.
C34_SameTruthiness ==
    (ImageTool /\ CollaboratorSucceeded) =>
        /\ "write_output" \in Range(log) <=> WithOutputPath
        /\ \A i \in ImageBlocks : Content[i] = ImageBlock(b64encode(API_IMAGE))
        /\ TookPathBranch =>
               /\ WithOutputPath
               /\ Content[1].text[2] = Argument("output_path")
               /\ exists(files, Argument("output_path"))
        /\ TookBytesBranch => ~ WithOutputPath
        /\ AuditWorked => IF WithOutputPath THEN TookPathBranch
                          ELSE TookBytesBranch

C34_witness ==
    /\ ImageTool /\ CollaboratorSucceeded
    /\ Argument("output_path") = JStr("")
    /\ TookBytesBranch
    /\ Content[2] = ImageBlock(b64encode(API_IMAGE))
    /\ ~ exists(files, JStr(""))

\* AzureImageGenerator.edit_image was called without a size and has read its
\* input image.
EditWithoutSize ==
    /\ EditCall
    /\ Len(calls) = 1
    /\ ~ Truthy(calls[1].size)
    /\ "read_input" \in Range(log)

\* C35: AzureImageGenerator.edit_image called without a size goes on to the
\* edit request whether or not the dimensions of the input image can be
\* determined (with the image's dimensions, or else with 1024x1024): it never
\* gives up for want of a size.
C35_EditProceedsWithoutSize ==
    EditWithoutSize => "client.post" \in Range(log)

====
